---- MODULE Spec2Model ----
(***************************************************************************)
(* NEXUS-VEIL: the recursive-descent parser (nexus_compiler.py) and the    *)
(* tree-walking interpreter (nexus_runtime.py) as state machines.          *)
(*                                                                         *)
(* The interpreter is modelled as a small-step machine: `control` is what  *)
(* the Python code is doing now (executing a statement, evaluating an      *)
(* expression, returning a value, or propagating a raised exception) and   *)
(* `stack` is the chain of Python call frames that wait for it.            *)
(***************************************************************************)
EXTENDS Integers, Sequences, FiniteSets, TLC

VARIABLES
    \* ---- interpreter (nexus_runtime.py) ----
    envs,         \* heap of NexusEnvironment objects; envs[1] is interpreter.globals
    environment,  \* interpreter.environment: index into envs
    status,       \* "idle" | "running" | "done" | "raised": where interpret() is
    ast,          \* the argument of the running interpret()
    control,      \* what is being executed, evaluated, returned or raised
    stack,        \* the waiting Python frames, innermost first
    result,       \* what interpret() returned (its local `result` while running)
    output,       \* lines printed to stdout
    calls,        \* history: every finished user-function call
    nobjs,        \* number of Python objects with an identity created so far
    last_expr,    \* history: value of the last finished top-level ExpressionStatement
    \* ---- parser (nexus_compiler.py) ----
    tokens,       \* NexusParser.tokens
    current,      \* NexusParser.current (0-based)
    statements,   \* parse()'s local `statements`
    pstatus,      \* where parse() is: "idle", "loop" (at the while test), "body" (in
                  \* the loop body), "done" (returned), "diverged" (never returns)
    perrors,      \* "Parse error: ..." lines printed by the last parse_statement call
    \* ---- lexer (nexus_compiler.py) ----
    source,       \* NexusLexer.source, as the sequence of its characters
    position,     \* NexusLexer.position (0-based)
    line,         \* NexusLexer.line
    column,       \* NexusLexer.column
    ltokens,      \* NexusLexer.tokens
    lstatus,      \* where tokenize() is: "idle", "loop" (at the while test), "body"
                  \* (in the loop body), "done" (returned)
    warned,       \* the positions an "Unknown character" warning was printed for
    starts        \* history: for each token of ltokens, the position of the scanner
                  \* when it began the token

ivars == <<envs, environment, status, ast, control, stack, result, output, calls, nobjs, last_expr>>
pvars == <<tokens, current, statements, pstatus, perrors>>
lvars == <<source, position, line, column, ltokens, lstatus, warned, starts>>
vars == <<envs, environment, status, ast, control, stack, result, output, calls, nobjs, last_expr,
          tokens, current, statements, pstatus, perrors,
          source, position, line, column, ltokens, lstatus, warned, starts>>

(***************************************************************************)
(* Bounds of the model.                                                    *)
(***************************************************************************)
MaxStmts == 2     \* length of the generated top-level statement sequences
MaxCalls == 3     \* number of calls of the returned closures in the counter programs
MaxArgs == 3      \* number of arguments passed in the parameter-binding programs
MaxTokens == 3    \* number of tokens before EOF in the generated parser inputs

(***************************************************************************)
(* Host (Python) values, tagged by their Python type, and NexusValue.      *)
(***************************************************************************)
HNone == [k |-> "none", v |-> 0]
HBool(b) == [k |-> "bool", v |-> b]
HInt(i) == [k |-> "int", v |-> i]
HStr(s) == [k |-> "str", v |-> s]
\* a Python float is modelled as the reduced fraction <<n, d>>, d > 0
HFloat(n, d) == [k |-> "float", v |-> <<n, d>>]
\* a builtin's Python closure, named by the key it is registered under
HBuiltin(name) == [k |-> "builtin", v |-> name]
\* a NexusValue object held as the payload of another NexusValue; id is the
\* object's identity
HNexus(val, id) == [k |-> "nexus", v |-> val, id |-> id]

NexusValue(value, type_name) == [value |-> value, type_name |-> type_name]

NullValue == NexusValue(HNone, "null")
Number(i) == NexusValue(HInt(i), "number")
Boolean(b) == NexusValue(HBool(b), "boolean")

\* isinstance(value, (int, float)): Python's bool is an int
IsNum(h) == h.k \in {"int", "bool", "float"}
\* the numeric value of a Python number as a fraction <<n, d>>
NumOf(h) ==
    IF h.k = "bool" THEN (IF h.v THEN <<1, 1>> ELSE <<0, 1>>)
    ELSE IF h.k = "int" THEN <<h.v, 1>>
    ELSE h.v

is_truthy(val) ==
    LET h == val.value IN
    IF h.k = "none" \/ (h.k = "bool" /\ ~h.v) THEN FALSE
    ELSE IF IsNum(h) /\ NumOf(h)[1] = 0 THEN FALSE
    ELSE IF h.k = "str" /\ h.v = "" THEN FALSE
    ELSE TRUE

(***************************************************************************)
(* NexusEnvironment: [parent, variables]; parent 0 is Python's None.       *)
(***************************************************************************)
NexusEnvironment(parent) == [parent |-> parent, variables |-> <<>>]

\* define as it would be if a declaration reused the binding of the enclosing scope
DefineInEnclosing(es, e, name, value) ==
    IF /\ name \notin DOMAIN es[e].variables
       /\ es[e].parent # 0
       /\ name \in DOMAIN es[es[e].parent].variables
    THEN [es EXCEPT ![es[e].parent].variables[name] = value]
    ELSE [es EXCEPT ![e].variables =
             [n \in (DOMAIN @) \cup {name} |-> IF n = name THEN value ELSE @[n]]]

define(es, e, name, value) ==
    [es EXCEPT ![e].variables =
        [n \in (DOMAIN @) \cup {name} |-> IF n = name THEN value ELSE @[n]]]

RECURSIVE get(_, _, _)
get(es, e, name) ==
    IF name \in DOMAIN es[e].variables
    THEN [found |-> TRUE, value |-> es[e].variables[name]]
    ELSE IF es[e].parent # 0
    THEN get(es, es[e].parent, name)
    ELSE [found |-> FALSE, value |-> NullValue]

\* assign as it would be if it bound the name in the current scope when that
\* scope does not define it
AssignOrDefine(es, e, name, value) ==
    [found |-> TRUE,
     envs |-> [es EXCEPT ![e].variables =
                  [n \in (DOMAIN @) \cup {name} |-> IF n = name THEN value ELSE @[n]]]]

RECURSIVE assign(_, _, _, _)
assign(es, e, name, value) ==
    IF name \in DOMAIN es[e].variables
    THEN [found |-> TRUE, envs |-> [es EXCEPT ![e].variables[name] = value]]
    ELSE IF es[e].parent # 0
    THEN assign(es, es[e].parent, name, value)
    ELSE [found |-> FALSE, envs |-> es]

RECURSIVE has(_, _, _)
has(es, e, name) ==
    IF name \in DOMAIN es[e].variables THEN TRUE
    ELSE IF es[e].parent # 0 THEN has(es, es[e].parent, name)
    ELSE FALSE

(***************************************************************************)
(* NexusFunction: [name, parameters, body, closure]; closure is the index  *)
(* of the captured environment, a reference to the object; id is the       *)
(* function object's identity.                                             *)
(***************************************************************************)
NexusFunction(name, parameters, body, closure, id) ==
    [k |-> "func", name |-> name, parameters |-> parameters, body |-> body,
     closure |-> closure, id |-> id]

BuiltinNames == {"print", "input", "len", "type", "str", "num"}

\* the globals after _define_builtins
define_builtins ==
    [parent |-> 0,
     variables |-> [n \in BuiltinNames |-> NexusValue(HBuiltin(n), "builtin_function")]]

(***************************************************************************)
(* Python arithmetic on numbers, as fractions <<n, d>> with d > 0.         *)
(***************************************************************************)
Abs(n) == IF n < 0 THEN -n ELSE n

RECURSIVE Gcd(_, _)
Gcd(a, b) == IF b = 0 THEN a ELSE Gcd(b, a % b)

QNorm(n, d) ==
    LET s == IF d < 0 THEN -1 ELSE 1
        g == Gcd(Abs(n), Abs(d))
    IN  <<(s * n) \div g, (s * d) \div g>>

QAdd(a, b) == QNorm(a[1] * b[2] + b[1] * a[2], a[2] * b[2])
QSub(a, b) == QNorm(a[1] * b[2] - b[1] * a[2], a[2] * b[2])
QMul(a, b) == QNorm(a[1] * b[1], a[2] * b[2])
\* the quotient as it would be if `/` were floor division
QDivFloor(a, b) == LET q == QNorm(a[1] * b[2], a[2] * b[1]) IN <<q[1] \div q[2], 1>>
QDiv(a, b) == QNorm(a[1] * b[2], a[2] * b[1])
QLess(a, b) == a[1] * b[2] < b[1] * a[2]
QFloor(a) == a[1] \div a[2]
\* Python's %: the result has the sign of the divisor
QMod(a, b) == QSub(a, QMul(b, <<QFloor(QDiv(a, b)), 1>>))

RECURSIVE QPow(_, _)
QPow(a, n) == IF n = 0 THEN <<1, 1>> ELSE QMul(a, QPow(a, n - 1))

\* the Python number with value q: a float when an operand was one
MkNum(q, isfloat) == IF isfloat THEN HFloat(q[1], q[2]) ELSE HInt(q[1])

(***************************************************************************)
(* Python's str() of a host value.                                         *)
(***************************************************************************)
Digits == <<"0", "1", "2", "3", "4", "5", "6", "7", "8", "9">>

RECURSIVE NatStr(_)
NatStr(n) == IF n < 10 THEN Digits[n + 1] ELSE NatStr(n \div 10) \o Digits[(n % 10) + 1]

IntStr(i) == IF i < 0 THEN "-" \o NatStr(-i) ELSE NatStr(i)

\* repr of a float: exact for the fractions with a one-digit decimal expansion
\* (d divides 10); other fractions are outside the inputs of the model
FloatStr(q) ==
    LET t == (Abs(q[1]) * 10) \div q[2]
    IN  (IF q[1] < 0 THEN "-" ELSE "") \o NatStr(t \div 10) \o "." \o Digits[(t % 10) + 1]

RECURSIVE PyStr(_)
PyStr(h) ==
    CASE h.k = "none" -> "None"
      [] h.k = "bool" -> IF h.v THEN "True" ELSE "False"
      [] h.k = "int" -> IntStr(h.v)
      [] h.k = "float" -> FloatStr(h.v)
      [] h.k = "str" -> h.v
      [] h.k = "func" -> "<function " \o h.name \o ">"
      \* a Python closure prints with its address, which the model leaves out
      [] h.k = "builtin" -> "<function builtin_" \o h.v \o ">"
      [] h.k = "nexus" -> PyStr(h.v.value)

RECURSIVE Rep(_, _)
Rep(s, n) == IF n <= 0 THEN "" ELSE s \o Rep(s, n - 1)

(***************************************************************************)
(* Outcome of a Python call: a returned value, or a raised exception.      *)
(***************************************************************************)
Ok(v) == [exc |-> "", value |-> v]
Err(exc) == [exc |-> exc, value |-> NullValue]

\* Python's == on two host values
HostEq(a, b) ==
    IF IsNum(a) /\ IsNum(b) THEN NumOf(a) = NumOf(b)
    ELSE IF a.k # b.k THEN FALSE
    ELSE IF a.k \in {"func", "nexus"} THEN a.id = b.id
    ELSE a.v = b.v

\* Python's < on two host values; the order of two strs is not modelled
HostLess(a, b) ==
    IF IsNum(a) /\ IsNum(b) THEN Ok(QLess(NumOf(a), NumOf(b)))
    ELSE IF a.k = "str" /\ b.k = "str" THEN Err("Unmodelled")
    ELSE Err("TypeError")

AnyFloat(a, b) == a.k = "float" \/ b.k = "float"
IsInt(h) == h.k \in {"int", "bool"}

\* the result of evaluate_binary_expression on two evaluated operands
BinaryOp(operator_str, left, right) ==
    LET a == left.value
        b == right.value
        nums == IsNum(a) /\ IsNum(b)
        fl == AnyFloat(a, b)
        Cmp(r, neg) == IF r.exc # "" THEN r
                       ELSE Ok(Boolean(IF neg THEN ~r.value ELSE r.value))
    IN
    CASE operator_str = "+" ->
            IF left.type_name = "string" \/ right.type_name = "string"
            THEN Ok(NexusValue(HStr(PyStr(a) \o PyStr(b)), "string"))
            ELSE IF nums THEN Ok(NexusValue(MkNum(QAdd(NumOf(a), NumOf(b)), fl), "number"))
            ELSE IF a.k = "str" /\ b.k = "str" THEN Ok(NexusValue(HStr(a.v \o b.v), "number"))
            ELSE Err("TypeError")
      [] operator_str = "-" ->
            IF nums THEN Ok(NexusValue(MkNum(QSub(NumOf(a), NumOf(b)), fl), "number"))
            ELSE Err("TypeError")
      [] operator_str = "*" ->
            IF nums THEN Ok(NexusValue(MkNum(QMul(NumOf(a), NumOf(b)), fl), "number"))
            ELSE IF a.k = "str" /\ IsInt(b)
            THEN Ok(NexusValue(HStr(Rep(a.v, NumOf(b)[1])), "number"))
            ELSE IF IsInt(a) /\ b.k = "str"
            THEN Ok(NexusValue(HStr(Rep(b.v, NumOf(a)[1])), "number"))
            ELSE Err("TypeError")
      [] operator_str = "/" ->
            \* right.value == 0 is False for a value that is no number
            IF IsNum(b) /\ NumOf(b)[1] = 0 THEN Err("ZeroDivisionError")
            ELSE IF nums THEN Ok(NexusValue(MkNum(QDiv(NumOf(a), NumOf(b)), TRUE), "number"))
            ELSE Err("TypeError")
      [] operator_str = "%" ->
            IF nums /\ NumOf(b)[1] = 0 THEN Err("ZeroDivisionError")
            ELSE IF nums THEN Ok(NexusValue(MkNum(QMod(NumOf(a), NumOf(b)), fl), "number"))
            \* str % value formats; a str of the model holds no conversion specifier
            ELSE Err("TypeError")
      [] operator_str = "**" ->
            IF ~nums THEN Err("TypeError")
            ELSE IF NumOf(b)[2] # 1 THEN Err("Unmodelled")
            ELSE IF NumOf(b)[1] >= 0
            THEN Ok(NexusValue(MkNum(QPow(NumOf(a), NumOf(b)[1]), fl), "number"))
            ELSE IF NumOf(a)[1] = 0 THEN Err("ZeroDivisionError")
            ELSE Ok(NexusValue(MkNum(QDiv(<<1, 1>>, QPow(NumOf(a), -NumOf(b)[1])), TRUE),
                               "number"))
      [] operator_str = "==" -> Ok(Boolean(HostEq(a, b)))
      [] operator_str = "!=" -> Ok(Boolean(~HostEq(a, b)))
      [] operator_str = "<" -> Cmp(HostLess(a, b), FALSE)
      [] operator_str = ">" -> Cmp(HostLess(b, a), FALSE)
      \* a <= b on numbers is not (b < a)
      [] operator_str = "<=" -> Cmp(HostLess(b, a), TRUE)
      [] operator_str = ">=" -> Cmp(HostLess(a, b), TRUE)
      [] operator_str \in {"and", "&&"} -> Ok(Boolean(is_truthy(left) /\ is_truthy(right)))
      [] operator_str \in {"or", "||"} -> Ok(Boolean(is_truthy(left) \/ is_truthy(right)))
      [] OTHER -> Err("ValueError")

\* the result of evaluate_unary_expression on an evaluated operand
UnaryOp(operator_str, operand) ==
    CASE operator_str = "-" ->
            IF IsNum(operand.value)
            THEN Ok(NexusValue(MkNum(QSub(<<0, 1>>, NumOf(operand.value)),
                                     operand.value.k = "float"), "number"))
            ELSE Err("TypeError")
      [] operator_str \in {"not", "!"} -> Ok(Boolean(~is_truthy(operand)))
      [] OTHER -> Err("ValueError")

(***************************************************************************)
(* AST nodes: the dicts the interpreter reads. An optional field that is   *)
(* absent (node.get(...) is None) holds NoNode.                            *)
(***************************************************************************)
NoNode == [type |-> "<absent>"]
Literal(value) == [type |-> "Literal", value |-> value]
Identifier(name) == [type |-> "Identifier", name |-> name]
BinaryExpression(left, operator, right) ==
    [type |-> "BinaryExpression", left |-> left, operator |-> operator, right |-> right]
UnaryExpression(operator, operand) ==
    [type |-> "UnaryExpression", operator |-> operator, operand |-> operand]
AssignmentExpression(left, right) ==
    [type |-> "AssignmentExpression", left |-> left, right |-> right]
CallExpression(callee, arguments) ==
    [type |-> "CallExpression", callee |-> callee, arguments |-> arguments]
VariableDeclaration(name, initializer) ==
    [type |-> "VariableDeclaration", name |-> name, initializer |-> initializer]
FunctionDeclaration(name, parameters, body) ==
    [type |-> "FunctionDeclaration", name |-> name, parameters |-> parameters,
     body |-> body]
ExpressionStatement(expression) ==
    [type |-> "ExpressionStatement", expression |-> expression]
IfStatement(condition, then_branch, else_branch) ==
    [type |-> "IfStatement", condition |-> condition, then_branch |-> then_branch,
     else_branch |-> else_branch]
WhileStatement(condition, body) ==
    [type |-> "WhileStatement", condition |-> condition, body |-> body]
ReturnStatement(value) == [type |-> "ReturnStatement", value |-> value]
BreakStatement == [type |-> "BreakStatement"]
ContinueStatement == [type |-> "ContinueStatement"]
Program(body) == [type |-> "Program", body |-> body]

\* the result of evaluate_literal
evaluate_literal(node) ==
    LET value == node.value IN
    CASE value.k = "bool" -> NexusValue(value, "boolean")
      [] value.k \in {"int", "float"} -> NexusValue(value, "number")
      [] value.k = "str" -> NexusValue(value, "string")
      [] value.k = "none" -> NexusValue(HNone, "null")
      [] OTHER -> NexusValue(value, "unknown")

(***************************************************************************)
(* The built-in functions of _define_builtins. `typed` is what input()      *)
(* reads; EndOfInput stands for a closed stdin.                            *)
(***************************************************************************)
EndOfInput == "<EOF>"
InputLines == {"7", "", EndOfInput}
Printed(kind, text) == [kind |-> kind, text |-> text]

RECURSIVE JoinArgs(_)
JoinArgs(args) ==
    IF args = <<>> THEN ""
    ELSE IF Len(args) = 1 THEN PyStr(args[1].value)
    ELSE PyStr(args[1].value) \o " " \o JoinArgs(Tail(args))

\* int(value) / float(value) of a str: the canonical decimal forms up to
\* MaxNumeral and one decimal digit are recognised
MaxNumeral == 20
ParseNumber(text) ==
    LET ints == {i \in 0..MaxNumeral : NatStr(i) = text}
        flts == {q \in (0..MaxNumeral) \X (0..9) :
                    NatStr(q[1]) \o "." \o Digits[q[2] + 1] = text}
    IN  IF ints # {} THEN Ok(NexusValue(HInt(CHOOSE i \in ints : TRUE), "number"))
        ELSE IF flts # {}
        THEN LET q == CHOOSE q \in flts : TRUE
                 f == QNorm(q[1] * 10 + q[2], 10)
             IN  Ok(NexusValue(HFloat(f[1], f[2]), "number"))
        ELSE Err("ValueError")

BuiltinCall(name, args, typed) ==
    CASE name = "print" ->
            [exc |-> "", value |-> NullValue,
             printed |-> <<Printed("print", JoinArgs(args))>>]
      [] name = "input" ->
            LET prompt == IF args # <<>> THEN PyStr(args[1].value) ELSE "" IN
            [exc |-> IF typed = EndOfInput THEN "EOFError" ELSE "",
             value |-> NexusValue(HStr(typed), "string"),
             printed |-> <<Printed("prompt", prompt)>>]
      [] name = "len" ->
            [exc |-> IF args = <<>> THEN "ValueError"
                     ELSE IF args[1].value.k = "str" THEN "" ELSE "TypeError",
             value |-> IF args # <<>> /\ args[1].value.k = "str"
                       THEN Number(Len(args[1].value.v)) ELSE NullValue,
             printed |-> <<>>]
      [] name = "type" ->
            [exc |-> IF args = <<>> THEN "ValueError" ELSE "",
             value |-> IF args # <<>> THEN NexusValue(HStr(args[1].type_name), "string")
                       ELSE NullValue,
             printed |-> <<>>]
      [] name = "str" ->
            [exc |-> "",
             value |-> IF args = <<>> THEN NexusValue(HStr(""), "string")
                       ELSE NexusValue(HStr(PyStr(args[1].value)), "string"),
             printed |-> <<>>]
      [] name = "num" ->
            LET r == IF args = <<>> THEN Ok(Number(0))
                     ELSE IF args[1].value.k = "str" THEN ParseNumber(args[1].value.v)
                     ELSE IF IsNum(args[1].value)
                     THEN Ok(NexusValue(HFloat(NumOf(args[1].value)[1],
                                               NumOf(args[1].value)[2]), "number"))
                     ELSE Err("ValueError")
            IN  [exc |-> r.exc, value |-> r.value, printed |-> <<>>]

(***************************************************************************)
(* The machine: control and frames.                                        *)
(***************************************************************************)
Exec(node) == [k |-> "exec", node |-> node, v |-> HNone, exc |-> ""]
Eval(node) == [k |-> "eval", node |-> node, v |-> HNone, exc |-> ""]
\* v is a NexusValue, or HNone for Python's None
Value(v) == [k |-> "value", node |-> NoNode, v |-> v, exc |-> ""]
\* exc is the exception's class; v is ReturnValue.value
Raise(exc, v) == [k |-> "raise", node |-> NoNode, v |-> v, exc |-> exc]
Halt == [k |-> "halt", node |-> NoNode, v |-> HNone, exc |-> ""]

\* the classes `except Exception` catches: every exception the evaluation
\* raises derives from Exception (ReturnValue, BreakException and
\* ContinueException included)
ExceptionClasses ==
    {"ReturnValue", "BreakException", "ContinueException", "NameError", "TypeError",
     "ZeroDivisionError", "ValueError", "KeyError", "EOFError", "Unmodelled"}

Top == stack[1]
Rest == Tail(stack)
Running == status = "running"
OnValue(kind) == Running /\ control.k = "value" /\ stack # <<>> /\ Top.k = kind
OnRaise(kind) == Running /\ control.k = "raise" /\ stack # <<>> /\ Top.k = kind
OnExec(type) == Running /\ control.k = "exec" /\ control.node.type = type
OnEval(type) == Running /\ control.k = "eval" /\ control.node.type = type

ParserIdle == UNCHANGED pvars
LexerIdle == UNCHANGED lvars

(***************************************************************************)
(* interpret: entry, the statement loop, and the except clause.            *)
(***************************************************************************)
RuntimeError(exc) == Printed("error", "Runtime Error: " \o exc)

\* interpret(ast) is entered
Interpret(a) ==
    /\ status = "idle"
    /\ ast' = a
    /\ IF a.type # "Program"
       THEN \* raise ValueError, caught by interpret's own except clause
            /\ status' = "done"
            /\ output' = Append(output, RuntimeError("ValueError"))
            /\ control' = Halt
            /\ stack' = <<>>
       ELSE IF a.body = <<>>
       THEN /\ status' = "done"
            /\ control' = Halt
            /\ stack' = <<>>
            /\ output' = output
       ELSE /\ status' = "running"
            /\ control' = Exec(a.body[1])
            /\ stack' = <<[k |-> "program", idx |-> 1]>>
            /\ output' = output
    /\ result' = HNone
    /\ UNCHANGED <<envs, environment, calls, nobjs, last_expr>>
    /\ ParserIdle
    /\ LexerIdle

\* the loop's result as it would be if only expression statements set it
StatementResultOfExpressions(previous, statement, value) ==
    IF statement.type = "ExpressionStatement" THEN value ELSE previous

\* result = self.execute(statement): the new value of `result`, given its
\* previous value, the statement and what execute returned
StatementResult(previous, statement, value) == value

\* result = self.execute(statement), then the next statement or `return result`
InterpretNext ==
    /\ OnValue("program")
    /\ result' = StatementResult(result, ast.body[Top.idx], control.v)
    /\ last_expr' = IF ast.body[Top.idx].type = "ExpressionStatement"
                    THEN control.v ELSE last_expr
    /\ IF Top.idx < Len(ast.body)
       THEN /\ control' = Exec(ast.body[Top.idx + 1])
            /\ stack' = <<[k |-> "program", idx |-> Top.idx + 1]>> \o Rest
            /\ status' = status
       ELSE /\ control' = Halt
            /\ stack' = Rest
            /\ status' = "done"
    /\ UNCHANGED <<envs, environment, ast, output, calls, nobjs>>
    /\ ParserIdle
    /\ LexerIdle

\* the except clause as it would be if the control-flow signals did not derive
\* from Exception
InterpretCatchesErrorsOnly(exc) ==
    exc \in ExceptionClasses \ {"ReturnValue", "BreakException", "ContinueException"}

\* the exception classes interpret's `except Exception` catches
InterpretCatches(exc) == exc \in ExceptionClasses

\* an exception reaches interpret's try block
InterpretCatch ==
    /\ OnRaise("program")
    /\ IF InterpretCatches(control.exc)
       THEN /\ status' = "done"
            /\ output' = Append(output, RuntimeError(control.exc))
       ELSE /\ status' = "raised"
            /\ output' = output
    /\ result' = HNone
    /\ control' = Halt
    /\ stack' = Rest
    /\ UNCHANGED <<envs, environment, ast, calls, nobjs, last_expr>>
    /\ ParserIdle
    /\ LexerIdle

(***************************************************************************)
(* execute: one action per statement kind.                                 *)
(***************************************************************************)
ExecuteVariableDeclaration ==
    /\ OnExec("VariableDeclaration")
    /\ IF control.node.initializer # NoNode
       THEN /\ control' = Eval(control.node.initializer)
            /\ stack' = <<[k |-> "vardecl", node |-> control.node]>> \o stack
            /\ envs' = envs
       ELSE /\ envs' = define(envs, environment, control.node.name, NullValue)
            /\ control' = Value(HNone)
            /\ stack' = stack
    /\ UNCHANGED <<environment, status, ast, result, output, calls, nobjs, last_expr>>
    /\ ParserIdle
    /\ LexerIdle

\* the initializer is evaluated: self.environment.define(name, value)
VariableDeclarationDefine ==
    /\ OnValue("vardecl")
    /\ envs' = define(envs, environment, Top.node.name, control.v)
    /\ control' = Value(HNone)
    /\ stack' = Rest
    /\ UNCHANGED <<environment, status, ast, result, output, calls, nobjs, last_expr>>
    /\ ParserIdle
    /\ LexerIdle

\* the environment a declared function captures
CapturedClosure(es, e) == e

ExecuteFunctionDeclaration ==
    /\ OnExec("FunctionDeclaration")
    /\ LET node == control.node
           function == NexusFunction(node.name, node.parameters, node.body,
                                     CapturedClosure(envs, environment), nobjs + 1)
       IN  envs' = define(envs, environment, node.name, NexusValue(function, "function"))
    /\ nobjs' = nobjs + 1
    /\ control' = Value(HNone)
    /\ UNCHANGED <<environment, status, ast, stack, result, output, calls, last_expr>>
    /\ ParserIdle
    /\ LexerIdle

ExecuteExpressionStatement ==
    /\ OnExec("ExpressionStatement")
    /\ control' = Eval(control.node.expression)
    /\ UNCHANGED <<envs, environment, status, ast, stack, result, output, calls, nobjs,
                   last_expr>>
    /\ ParserIdle
    /\ LexerIdle

ExecuteIfStatement ==
    /\ OnExec("IfStatement")
    /\ control' = Eval(control.node.condition)
    /\ stack' = <<[k |-> "if", node |-> control.node]>> \o stack
    /\ UNCHANGED <<envs, environment, status, ast, result, output, calls, nobjs, last_expr>>
    /\ ParserIdle
    /\ LexerIdle

\* the condition of an if is evaluated: the branch's result is the statement's
IfBranch ==
    /\ OnValue("if")
    /\ control' = IF is_truthy(control.v) THEN Exec(Top.node.then_branch)
                  ELSE IF Top.node.else_branch # NoNode THEN Exec(Top.node.else_branch)
                  ELSE Value(HNone)
    /\ stack' = Rest
    /\ UNCHANGED <<envs, environment, status, ast, result, output, calls, nobjs, last_expr>>
    /\ ParserIdle
    /\ LexerIdle

ExecuteWhileStatement ==
    /\ OnExec("WhileStatement")
    /\ control' = Eval(control.node.condition)
    /\ stack' = <<[k |-> "whilecond", node |-> control.node]>> \o stack
    /\ UNCHANGED <<envs, environment, status, ast, result, output, calls, nobjs, last_expr>>
    /\ ParserIdle
    /\ LexerIdle

\* whether the loop runs its body on this value of the condition
WhileEnters(condition) == is_truthy(condition)

\* the condition of a while is evaluated
WhileTest ==
    /\ OnValue("whilecond")
    /\ IF WhileEnters(control.v)
       THEN /\ control' = Exec(Top.node.body)
            /\ stack' = <<[k |-> "whilebody", node |-> Top.node]>> \o Rest
       ELSE /\ control' = Value(HNone)
            /\ stack' = Rest
    /\ UNCHANGED <<envs, environment, status, ast, result, output, calls, nobjs, last_expr>>
    /\ ParserIdle
    /\ LexerIdle

\* the body of a while finished: back to the condition
WhileIterate ==
    /\ OnValue("whilebody")
    /\ control' = Eval(Top.node.condition)
    /\ stack' = <<[k |-> "whilecond", node |-> Top.node]>> \o Rest
    /\ UNCHANGED <<envs, environment, status, ast, result, output, calls, nobjs, last_expr>>
    /\ ParserIdle
    /\ LexerIdle

\* the inner try as it would be with a bare `except:` in place of
\* `except BreakException:`
WhileBodyHandlerBareExcept(exc) ==
    IF exc = "ContinueException" THEN "continue" ELSE "break"

\* the inner try as it would be if `except ContinueException` left the loop
WhileBodyHandlerContinueEnds(exc) ==
    IF exc \in {"ContinueException", "BreakException"} THEN "break" ELSE "propagate"

\* what the inner try of execute_while_statement does with an exception raised
\* by the body: "continue", "break", or "propagate"
WhileBodyHandler(exc) ==
    IF exc = "ContinueException" THEN "continue"
    ELSE IF exc = "BreakException" THEN "break"
    ELSE "propagate"

WhileBodyCatch ==
    /\ OnRaise("whilebody")
    /\ LET h == WhileBodyHandler(control.exc) IN
       IF h = "continue"
       THEN /\ control' = Eval(Top.node.condition)
            /\ stack' = <<[k |-> "whilecond", node |-> Top.node]>> \o Rest
       ELSE IF h = "break"
       THEN /\ control' = Value(HNone)
            /\ stack' = Rest
       ELSE /\ control' = control
            /\ stack' = Rest
    /\ UNCHANGED <<envs, environment, status, ast, result, output, calls, nobjs, last_expr>>
    /\ ParserIdle
    /\ LexerIdle

\* an exception raised by the condition meets the outer try only
WhileCondCatch ==
    /\ OnRaise("whilecond")
    /\ control' = IF control.exc = "BreakException" THEN Value(HNone) ELSE control
    /\ stack' = Rest
    /\ UNCHANGED <<envs, environment, status, ast, result, output, calls, nobjs, last_expr>>
    /\ ParserIdle
    /\ LexerIdle

ExecuteReturnStatement ==
    /\ OnExec("ReturnStatement")
    /\ IF control.node.value # NoNode
       THEN /\ control' = Eval(control.node.value)
            /\ stack' = <<[k |-> "return"]>> \o stack
       ELSE /\ control' = Raise("ReturnValue", NullValue)
            /\ stack' = stack
    /\ UNCHANGED <<envs, environment, status, ast, result, output, calls, nobjs, last_expr>>
    /\ ParserIdle
    /\ LexerIdle

\* the value of a return is evaluated: raise ReturnValue(value)
ReturnRaise ==
    /\ OnValue("return")
    /\ control' = Raise("ReturnValue", control.v)
    /\ stack' = Rest
    /\ UNCHANGED <<envs, environment, status, ast, result, output, calls, nobjs, last_expr>>
    /\ ParserIdle
    /\ LexerIdle

ExecuteBreakStatement ==
    /\ OnExec("BreakStatement")
    /\ control' = Raise("BreakException", HNone)
    /\ UNCHANGED <<envs, environment, status, ast, stack, result, output, calls, nobjs,
                   last_expr>>
    /\ ParserIdle
    /\ LexerIdle

ExecuteContinueStatement ==
    /\ OnExec("ContinueStatement")
    /\ control' = Raise("ContinueException", HNone)
    /\ UNCHANGED <<envs, environment, status, ast, stack, result, output, calls, nobjs,
                   last_expr>>
    /\ ParserIdle
    /\ LexerIdle

StatementTypes ==
    {"VariableDeclaration", "FunctionDeclaration", "ExpressionStatement", "IfStatement",
     "WhileStatement", "ReturnStatement", "BreakStatement", "ContinueStatement"}

ExecuteUnknown ==
    /\ Running /\ control.k = "exec" /\ control.node.type \notin StatementTypes
    /\ control' = Raise("ValueError", HNone)
    /\ UNCHANGED <<envs, environment, status, ast, stack, result, output, calls, nobjs,
                   last_expr>>
    /\ ParserIdle
    /\ LexerIdle

(***************************************************************************)
(* evaluate: one action per expression kind and per resumption.            *)
(***************************************************************************)
EvaluateLiteral ==
    /\ OnEval("Literal")
    /\ control' = Value(evaluate_literal(control.node))
    /\ UNCHANGED <<envs, environment, status, ast, stack, result, output, calls, nobjs,
                   last_expr>>
    /\ ParserIdle
    /\ LexerIdle

EvaluateIdentifier ==
    /\ OnEval("Identifier")
    /\ LET r == get(envs, environment, control.node.name) IN
       control' = IF r.found THEN Value(r.value) ELSE Raise("NameError", HNone)
    /\ UNCHANGED <<envs, environment, status, ast, stack, result, output, calls, nobjs,
                   last_expr>>
    /\ ParserIdle
    /\ LexerIdle

EvaluateBinaryExpression ==
    /\ OnEval("BinaryExpression")
    /\ control' = Eval(control.node.left)
    /\ stack' = <<[k |-> "binleft", node |-> control.node]>> \o stack
    /\ UNCHANGED <<envs, environment, status, ast, result, output, calls, nobjs, last_expr>>
    /\ ParserIdle
    /\ LexerIdle

BinaryLeftDone ==
    /\ OnValue("binleft")
    /\ control' = Eval(Top.node.right)
    /\ stack' = <<[k |-> "binright", node |-> Top.node, left |-> control.v]>> \o Rest
    /\ UNCHANGED <<envs, environment, status, ast, result, output, calls, nobjs, last_expr>>
    /\ ParserIdle
    /\ LexerIdle

BinaryApply ==
    /\ OnValue("binright")
    /\ LET r == BinaryOp(Top.node.operator, Top.left, control.v) IN
       control' = IF r.exc = "" THEN Value(r.value) ELSE Raise(r.exc, HNone)
    /\ stack' = Rest
    /\ UNCHANGED <<envs, environment, status, ast, result, output, calls, nobjs, last_expr>>
    /\ ParserIdle
    /\ LexerIdle

EvaluateUnaryExpression ==
    /\ OnEval("UnaryExpression")
    /\ control' = Eval(control.node.operand)
    /\ stack' = <<[k |-> "unary", node |-> control.node]>> \o stack
    /\ UNCHANGED <<envs, environment, status, ast, result, output, calls, nobjs, last_expr>>
    /\ ParserIdle
    /\ LexerIdle

UnaryApply ==
    /\ OnValue("unary")
    /\ LET r == UnaryOp(Top.node.operator, control.v) IN
       control' = IF r.exc = "" THEN Value(r.value) ELSE Raise(r.exc, HNone)
    /\ stack' = Rest
    /\ UNCHANGED <<envs, environment, status, ast, result, output, calls, nobjs, last_expr>>
    /\ ParserIdle
    /\ LexerIdle

EvaluateAssignmentExpression ==
    /\ OnEval("AssignmentExpression")
    /\ control' = Eval(control.node.right)
    /\ stack' = <<[k |-> "assign", node |-> control.node]>> \o stack
    /\ UNCHANGED <<envs, environment, status, ast, result, output, calls, nobjs, last_expr>>
    /\ ParserIdle
    /\ LexerIdle

\* the right-hand side is evaluated: self.environment.assign(name, value)
AssignmentApply ==
    /\ OnValue("assign")
    /\ IF Top.node.left.type = "Identifier"
       THEN LET r == assign(envs, environment, Top.node.left.name, control.v) IN
            /\ envs' = r.envs
            /\ control' = IF r.found THEN control ELSE Raise("NameError", HNone)
       ELSE /\ envs' = envs
            /\ control' = Raise("ValueError", HNone)
    /\ stack' = Rest
    /\ UNCHANGED <<environment, status, ast, result, output, calls, nobjs, last_expr>>
    /\ ParserIdle
    /\ LexerIdle

EvaluateUnknown ==
    /\ Running /\ control.k = "eval"
    /\ control.node.type \notin {"Literal", "Identifier", "BinaryExpression",
                                 "UnaryExpression", "AssignmentExpression",
                                 "CallExpression"}
    /\ control' = Raise("ValueError", HNone)
    /\ UNCHANGED <<envs, environment, status, ast, stack, result, output, calls, nobjs,
                   last_expr>>
    /\ ParserIdle
    /\ LexerIdle

\* an exception passes a frame that has no handler for it
Propagate ==
    /\ Running /\ control.k = "raise" /\ stack # <<>>
    /\ Top.k \in {"vardecl", "if", "return", "binleft", "binright", "unary", "assign",
                  "callee", "args"}
    /\ stack' = Rest
    /\ UNCHANGED <<envs, environment, status, ast, control, result, output, calls, nobjs,
                   last_expr>>
    /\ ParserIdle
    /\ LexerIdle

(***************************************************************************)
(* Calls: evaluate_call_expression and NexusFunction.call.                 *)
(***************************************************************************)
\* the parent as it would be under dynamic scoping
CallParentCaller(fn, previous_env) == previous_env

\* the parent of the environment a call of fn runs in
CallParent(fn, previous_env) == fn.closure

\* the parameter's value as it would be with `i < len(arguments) - 1`
ParameterValueDropsLast(arguments, i) ==
    IF i < Len(arguments) THEN arguments[i] ELSE NullValue

\* the value bound to parameter i
ParameterValue(arguments, i) ==
    IF i <= Len(arguments) THEN arguments[i] ELSE NullValue

\* environment.define(param, value) for the parameters from i on
RECURSIVE BindParameters(_, _, _, _, _)
BindParameters(es, e, parameters, arguments, i) ==
    IF i > Len(parameters) THEN es
    ELSE BindParameters(define(es, e, parameters[i], ParameterValue(arguments, i)),
                        e, parameters, arguments, i + 1)

\* the heap as it would be if call() ran the body under a copy of the closure
CallEnvironmentCopiesClosure(es, fn, arguments, previous_env) ==
    BindParameters(Append(Append(es, NexusEnvironment(Len(es) + 2)), es[fn.closure]),
                   Len(es) + 1, fn.parameters, arguments, 1)

\* the heap after call() has made and filled the environment of the call
CallEnvironment(es, fn, arguments, previous_env) ==
    BindParameters(Append(es, NexusEnvironment(CallParent(fn, previous_env))),
                   Len(es) + 1, fn.parameters, arguments, 1)

\* the record of a finished call kept in `calls`
CallRecord(fn, value) ==
    [name |-> fn.name, closure |-> fn.closure, id |-> fn.id, result |-> value]

\* callee(arguments...) once callee and arguments are evaluated; `rest` are the
\* frames below the call expression's
Invoke(callee, arguments, rest) ==
    IF callee.type_name = "function"
    THEN LET fn == callee.value IN
         /\ envs' = CallEnvironment(envs, fn, arguments, environment)
         /\ IF fn.body = <<>>
            THEN \* the for loop runs no statement: return null, finally restores
                 /\ environment' = environment
                 /\ control' = Value(NullValue)
                 /\ stack' = rest
                 /\ calls' = Append(calls, CallRecord(fn, NullValue))
            ELSE /\ environment' = Len(envs) + 1
                 /\ control' = Exec(fn.body[1])
                 /\ stack' = <<[k |-> "callbody", fn |-> fn, idx |-> 1,
                                previous_env |-> environment]>> \o rest
                 /\ calls' = calls
         /\ UNCHANGED <<output, nobjs>>
    ELSE IF callee.type_name = "builtin_function"
    THEN \E typed \in (IF callee.value.v = "input" THEN InputLines ELSE {""}) :
            LET r == BuiltinCall(callee.value.v, arguments, typed) IN
            /\ output' = output \o r.printed
            /\ control' = IF r.exc = ""
                          THEN Value(NexusValue(HNexus(r.value, nobjs + 1), "null"))
                          ELSE Raise(r.exc, HNone)
            /\ nobjs' = nobjs + 1
            /\ stack' = rest
            /\ UNCHANGED <<envs, environment, calls>>
    ELSE /\ control' = Raise("TypeError", HNone)
         /\ stack' = rest
         /\ UNCHANGED <<envs, environment, output, calls, nobjs>>

EvaluateCallExpression ==
    /\ OnEval("CallExpression")
    /\ control' = Eval(control.node.callee)
    /\ stack' = <<[k |-> "callee", node |-> control.node]>> \o stack
    /\ UNCHANGED <<envs, environment, status, ast, result, output, calls, nobjs, last_expr>>
    /\ ParserIdle
    /\ LexerIdle

\* the callee is evaluated: on to the arguments, or to the call when there are none
CallCalleeDone ==
    /\ OnValue("callee")
    /\ IF Top.node.arguments # <<>>
       THEN /\ control' = Eval(Top.node.arguments[1])
            /\ stack' = <<[k |-> "args", node |-> Top.node, callee |-> control.v,
                           arguments |-> <<>>]>> \o Rest
            /\ UNCHANGED <<envs, environment, output, calls, nobjs>>
       ELSE Invoke(control.v, <<>>, Rest)
    /\ UNCHANGED <<status, ast, result, last_expr>>
    /\ ParserIdle
    /\ LexerIdle

\* an argument is evaluated: on to the next one, or to the call after the last
CallArgumentDone ==
    /\ OnValue("args")
    /\ LET arguments == Append(Top.arguments, control.v) IN
       IF Len(arguments) < Len(Top.node.arguments)
       THEN /\ control' = Eval(Top.node.arguments[Len(arguments) + 1])
            /\ stack' = <<[Top EXCEPT !.arguments = arguments]>> \o Rest
            /\ UNCHANGED <<envs, environment, output, calls, nobjs>>
       ELSE Invoke(Top.callee, arguments, Rest)
    /\ UNCHANGED <<status, ast, result, last_expr>>
    /\ ParserIdle
    /\ LexerIdle

\* the scope as it would be left if call() had no finally clause
RestoreEnvironmentSkipped(frame) == environment
\* finally: interpreter.environment = previous_env
RestoreEnvironment(frame) == frame.previous_env

\* a statement of the body finished: the next one, or `return NexusValue(None, "null")`
\* with the finally clause restoring interpreter.environment
CallNextStatement ==
    /\ OnValue("callbody")
    /\ IF Top.idx < Len(Top.fn.body)
       THEN /\ control' = Exec(Top.fn.body[Top.idx + 1])
            /\ stack' = <<[Top EXCEPT !.idx = Top.idx + 1]>> \o Rest
            /\ UNCHANGED <<environment, calls>>
       ELSE /\ control' = Value(NullValue)
            /\ stack' = Rest
            /\ environment' = RestoreEnvironment(Top)
            /\ calls' = Append(calls, CallRecord(Top.fn, NullValue))
    /\ UNCHANGED <<envs, status, ast, result, output, nobjs, last_expr>>
    /\ ParserIdle
    /\ LexerIdle

\* whether call()'s except clause catches the exception
CallCatches(exc) == exc = "ReturnValue"

\* an exception leaves the body: except ReturnValue, and finally
CallCatch ==
    /\ OnRaise("callbody")
    /\ IF CallCatches(control.exc)
       THEN /\ control' = Value(control.v)
            /\ calls' = Append(calls, CallRecord(Top.fn, control.v))
       ELSE /\ control' = control
            /\ calls' = calls
    /\ stack' = Rest
    /\ environment' = RestoreEnvironment(Top)
    /\ UNCHANGED <<envs, status, ast, result, output, nobjs, last_expr>>
    /\ ParserIdle
    /\ LexerIdle

(***************************************************************************)
(* The ASTs handed to interpret: what run_file can load from a document.   *)
(***************************************************************************)
Num(i) == Literal(HInt(i))
True == Literal(HBool(TRUE))
Var(name) == Identifier(name)
Set(name, e) == AssignmentExpression(Identifier(name), e)
Bin(l, op, r) == BinaryExpression(l, op, r)
CallOf(name, arguments) == CallExpression(Identifier(name), arguments)
Stmt(e) == ExpressionStatement(e)
Incr(name) == Set(name, Bin(Var(name), "+", Num(1)))

\* the statements the generated programs are built from
StatementPool ==
    { Stmt(Num(1)),
      VariableDeclaration("x", Num(2)),
      VariableDeclaration("x", NoNode),
      Stmt(Var("x")),
      Stmt(Set("x", Num(3))),
      FunctionDeclaration("f", <<>>, <<ReturnStatement(Num(4))>>),
      Stmt(CallOf("f", <<>>)),
      Stmt(CallOf("x", <<>>)),
      IfStatement(Var("x"), Stmt(Num(5)), NoNode),
      WhileStatement(Literal(HBool(FALSE)), Stmt(Num(6))),
      WhileStatement(Var("y"), Stmt(Num(6))),
      BreakStatement,
      ContinueStatement,
      ReturnStatement(Num(7)),
      Stmt(Bin(Num(1), "/", Num(0))),
      Stmt(UnaryExpression("-", Literal(HNone))),
      [type |-> "BlockStatement"],
      Stmt([type |-> "LambdaExpression"]) }

RECURSIVE SeqsUpTo(_, _)
SeqsUpTo(S, n) ==
    IF n = 0 THEN {<<>>}
    ELSE LET shorter == SeqsUpTo(S, n - 1)
         IN  shorter \cup {Append(q, x) : q \in {t \in shorter : Len(t) = n - 1}, x \in S}

GeneratedPrograms == {Program(body) : body \in SeqsUpTo(StatementPool, MaxStmts)}

\* func f(n) { var i = 0; while (i < 2) if (i == n) return i + 10; else i = i + 1;
\*             i = 99; return i; }   var r = f(n); r;
ReturnProgram(n) ==
    Program(<<
        FunctionDeclaration("f", <<"n">>, <<
            VariableDeclaration("i", Num(0)),
            WhileStatement(Bin(Var("i"), "<", Num(2)),
                IfStatement(Bin(Var("i"), "==", Var("n")),
                    ReturnStatement(Bin(Var("i"), "+", Num(10))),
                    Stmt(Incr("i")))),
            Stmt(Set("i", Num(99))),
            ReturnStatement(Var("i")) >>),
        VariableDeclaration("r", CallOf("f", <<Num(n)>>)),
        Stmt(Var("r")) >>)

\* func g() { return 1; }  func f() { var i = 0; while (i < 2) i = i + g(); return i; }
\* f();
ReturnInCalleeProgram ==
    Program(<<
        FunctionDeclaration("g", <<>>, <<ReturnStatement(Num(1))>>),
        FunctionDeclaration("f", <<>>, <<
            VariableDeclaration("i", Num(0)),
            WhileStatement(Bin(Var("i"), "<", Num(2)),
                Stmt(Set("i", Bin(Var("i"), "+", CallOf("g", <<>>))))),
            ReturnStatement(Var("i")) >>),
        Stmt(CallOf("f", <<>>)) >>)

\* var i = 0; var j = 0;
\* while ((i = i + 1) < 3) while (true) if (j >= i) break; else j = j + 1;   j;
NestedBreakProgram ==
    Program(<<
        VariableDeclaration("i", Num(0)),
        VariableDeclaration("j", Num(0)),
        WhileStatement(Bin(Incr("i"), "<", Num(3)),
            WhileStatement(True,
                IfStatement(Bin(Var("j"), ">=", Var("i")),
                    BreakStatement,
                    Stmt(Incr("j"))))),
        Stmt(Var("j")) >>)

\* var i = 0; var t = 0;
\* while ((i = i + 1) < 4) if (i == k) continue; else t = t + i;   t;
ContinueProgram(k) ==
    Program(<<
        VariableDeclaration("i", Num(0)),
        VariableDeclaration("t", Num(0)),
        WhileStatement(Bin(Incr("i"), "<", Num(4)),
            IfStatement(Bin(Var("i"), "==", Num(k)),
                ContinueStatement,
                Stmt(Set("t", Bin(Var("t"), "+", Var("i")))))),
        Stmt(Var("t")) >>)

\* var x = 1; func g() { return x; } func h() { var x = 2; return g(); } h();
StaticScopeProgram ==
    Program(<<
        VariableDeclaration("x", Num(1)),
        FunctionDeclaration("g", <<>>, <<ReturnStatement(Var("x"))>>),
        FunctionDeclaration("h", <<>>, <<
            VariableDeclaration("x", Num(2)),
            ReturnStatement(CallOf("g", <<>>)) >>),
        Stmt(CallOf("h", <<>>)) >>)

\* func g() { return y; } func h() { var y = 3; return g(); } h();
CallerOnlyProgram ==
    Program(<<
        FunctionDeclaration("g", <<>>, <<ReturnStatement(Var("y"))>>),
        FunctionDeclaration("h", <<>>, <<
            VariableDeclaration("y", Num(3)),
            ReturnStatement(CallOf("g", <<>>)) >>),
        Stmt(CallOf("h", <<>>)) >>)

\* func o() { var x = 5; func inner() { return x; } return inner; }
\* var fn = o(); func c() { var x = 9; return fn(); } c();
ReturnedClosureProgram ==
    Program(<<
        FunctionDeclaration("o", <<>>, <<
            VariableDeclaration("x", Num(5)),
            FunctionDeclaration("inner", <<>>, <<ReturnStatement(Var("x"))>>),
            ReturnStatement(Var("inner")) >>),
        VariableDeclaration("fn", CallOf("o", <<>>)),
        FunctionDeclaration("c", <<>>, <<
            VariableDeclaration("x", Num(9)),
            ReturnStatement(CallOf("fn", <<>>)) >>),
        Stmt(CallOf("c", <<>>)) >>)

\* func make() { var x = 0; func inc() { x = x + 1; return x; } return inc; }
\* var a = make(); var b = make();  then the calls a(); / b(); named by `who`
CounterPrelude ==
    << FunctionDeclaration("make", <<>>, <<
           VariableDeclaration("x", Num(0)),
           FunctionDeclaration("inc", <<>>, <<
               Stmt(Incr("x")),
               ReturnStatement(Var("x")) >>),
           ReturnStatement(Var("inc")) >>),
       VariableDeclaration("a", CallOf("make", <<>>)),
       VariableDeclaration("b", CallOf("make", <<>>)) >>

CounterProgram(who) ==
    Program(CounterPrelude \o [i \in 1..Len(who) |-> Stmt(CallOf(who[i], <<>>))])

CounterPrograms == {CounterProgram(who) : who \in SeqsUpTo({"a", "b"}, MaxCalls)}

\* var x = 1; var y = 0;
\* func f() { var x = 5; func g() { x = 7; y = 8; return x; } return g(); }
\* f(); x = 3; z = 1;
AssignProgram ==
    Program(<<
        VariableDeclaration("x", Num(1)),
        VariableDeclaration("y", Num(0)),
        FunctionDeclaration("f", <<>>, <<
            VariableDeclaration("x", Num(5)),
            FunctionDeclaration("g", <<>>, <<
                Stmt(Set("x", Num(7))),
                Stmt(Set("y", Num(8))),
                ReturnStatement(Var("x")) >>),
            ReturnStatement(CallOf("g", <<>>)) >>),
        Stmt(CallOf("f", <<>>)),
        Stmt(Set("x", Num(3))),
        Stmt(Set("z", Num(1))) >>)

\* func f() { w = 9; } f();
AssignUndefinedInCallProgram ==
    Program(<<
        FunctionDeclaration("f", <<>>, <<Stmt(Set("w", Num(9)))>>),
        Stmt(CallOf("f", <<>>)) >>)

\* var x = v; func f() { var x = w; return x; } var r = f(); x;
ShadowProgram(v, w) ==
    Program(<<
        VariableDeclaration("x", Num(v)),
        FunctionDeclaration("f", <<>>, <<
            VariableDeclaration("x", Num(w)),
            ReturnStatement(Var("x")) >>),
        VariableDeclaration("r", CallOf("f", <<>>)),
        Stmt(Var("x")) >>)

ShadowPrograms == {ShadowProgram(v, w) : v \in 1..2, w \in 1..2}

\* var t = 0; var u = 0; func f(<parameters>) { t = <p1>; u = <p2>; }
\* var r = f(10, 20, ...);    with n arguments; the body reads the parameters
\* the function has
ParameterBody(parameters) ==
    [i \in 1..Len(parameters) |->
        Stmt(Set(IF i = 1 THEN "t" ELSE "u", Var(parameters[i])))]

ParameterProgram(parameters, n) ==
    Program(<<
        VariableDeclaration("t", Num(0)),
        VariableDeclaration("u", Num(0)),
        FunctionDeclaration("f", parameters, ParameterBody(parameters)),
        VariableDeclaration("r", CallOf("f", [i \in 1..n |-> Num(10 * i)])) >>)

ParameterLists == {<<>>, <<"a">>, <<"a", "b">>, <<"b", "a">>, <<"a", "a">>}

ParameterPrograms ==
    {ParameterProgram(parameters, n) : parameters \in ParameterLists, n \in 0..MaxArgs}

\* func b() { break; } var i = 0; while (b()) i = 1;   i;
BreakInConditionProgram ==
    Program(<<
        FunctionDeclaration("b", <<>>, <<BreakStatement>>),
        VariableDeclaration("i", Num(0)),
        WhileStatement(CallOf("b", <<>>), Stmt(Set("i", Num(1)))),
        Stmt(Var("i")) >>)

\* one call of a built-in: name(); name("ab"); name(7, "7"); name(1.5); name(name)
BuiltinArguments ==
    { <<>>, <<Literal(HStr("ab"))>>, <<Num(7), Literal(HStr("7"))>>,
      <<Literal(HFloat(3, 2))>>, <<Literal(HStr("1.5"))>> }

BuiltinPrograms ==
    {Program(<<Stmt(CallOf(name, arguments))>>) :
        name \in BuiltinNames, arguments \in BuiltinArguments}
    \cup {Program(<<Stmt(CallOf(name, <<Var(name)>>))>>) : name \in BuiltinNames}

\* var n = 0; func f() { n = n + 1; break; }   while (n < 3) f();   n;
BreakInCalleeProgram ==
    Program(<<
        VariableDeclaration("n", Num(0)),
        FunctionDeclaration("f", <<>>, <<Stmt(Incr("n")), BreakStatement>>),
        WhileStatement(Bin(Var("n"), "<", Num(3)), Stmt(CallOf("f", <<>>))),
        Stmt(Var("n")) >>)

\* var n = 0; var t = 0; func g() { continue; }
\* while ((n = n + 1) < 3) t = t + g();   t;
ContinueInCalleeProgram ==
    Program(<<
        VariableDeclaration("n", Num(0)),
        VariableDeclaration("t", Num(0)),
        FunctionDeclaration("g", <<>>, <<ContinueStatement>>),
        WhileStatement(Bin(Incr("n"), "<", Num(3)),
            Stmt(Set("t", Bin(Var("t"), "+", CallOf("g", <<>>))))),
        Stmt(Var("t")) >>)

\* one division of two literals: 10 / 2; 10 / 0; 7 / 2; 1 / 0.0; 2 / false; ...
DivisionOperands ==
    { HInt(10), HInt(2), HInt(0), HInt(7), HInt(-3), HFloat(0, 1), HFloat(1, 2),
      HBool(FALSE), HBool(TRUE) }

DivisionProgram(a, b) == Program(<<Stmt(Bin(Literal(a), "/", Literal(b)))>>)

DivisionPrograms == {DivisionProgram(a, b) : a \in DivisionOperands, b \in DivisionOperands}

Programs ==
    GeneratedPrograms \cup {ReturnProgram(n) : n \in 0..2}
    \cup {ReturnInCalleeProgram, NestedBreakProgram}
    \cup {ContinueProgram(k) : k \in 1..3}
    \cup {StaticScopeProgram, CallerOnlyProgram, ReturnedClosureProgram}
    \cup CounterPrograms
    \cup {AssignProgram, AssignUndefinedInCallProgram}
    \cup ShadowPrograms \cup ParameterPrograms
    \cup {BreakInConditionProgram} \cup BuiltinPrograms \cup DivisionPrograms
    \cup {BreakInCalleeProgram, ContinueInCalleeProgram}

\* a document whose root is no Program node
NonPrograms == {Num(1), [type |-> "Module", body |-> <<>>]}

Asts == Programs \cup NonPrograms

(***************************************************************************)
(* The interpreter's specification: a new NexusInterpreter, one interpret. *)
(***************************************************************************)
InterpreterInit ==
    /\ envs = <<define_builtins>>
    /\ environment = 1
    /\ status = "idle"
    /\ ast = NoNode
    /\ control = Halt
    /\ stack = <<>>
    /\ result = HNone
    /\ output = <<>>
    /\ calls = <<>>
    /\ nobjs = 0
    /\ last_expr = HNone

ParserUnused ==
    /\ tokens = <<>>
    /\ current = 0
    /\ statements = <<>>
    /\ pstatus = "idle"
    /\ perrors = 0

LexerUnused ==
    /\ source = <<>>
    /\ position = 0
    /\ line = 1
    /\ column = 1
    /\ ltokens = <<>>
    /\ lstatus = "idle"
    /\ warned = {}
    /\ starts = <<>>

Init == InterpreterInit /\ ParserUnused /\ LexerUnused

Step ==
    \/ InterpretNext
    \/ InterpretCatch
    \/ ExecuteVariableDeclaration
    \/ VariableDeclarationDefine
    \/ ExecuteFunctionDeclaration
    \/ ExecuteExpressionStatement
    \/ ExecuteIfStatement
    \/ IfBranch
    \/ ExecuteWhileStatement
    \/ WhileTest
    \/ WhileIterate
    \/ WhileBodyCatch
    \/ WhileCondCatch
    \/ ExecuteReturnStatement
    \/ ReturnRaise
    \/ ExecuteBreakStatement
    \/ ExecuteContinueStatement
    \/ ExecuteUnknown
    \/ EvaluateLiteral
    \/ EvaluateIdentifier
    \/ EvaluateBinaryExpression
    \/ BinaryLeftDone
    \/ BinaryApply
    \/ EvaluateUnaryExpression
    \/ UnaryApply
    \/ EvaluateAssignmentExpression
    \/ AssignmentApply
    \/ EvaluateUnknown
    \/ Propagate
    \/ EvaluateCallExpression
    \/ CallCalleeDone
    \/ CallArgumentDone
    \/ CallNextStatement
    \/ CallCatch

Next == (\E a \in Asts : Interpret(a)) \/ Step

Spec == Init /\ [][Next]_vars

(***************************************************************************)
(* A session: NexusRuntime holds one NexusInterpreter and hands it every   *)
(* AST (run_ast); interactive_mode calls run_source once per line typed.   *)
(***************************************************************************)
\* the lines of a session, in the order they are typed; a session runs any of
\* them, in this order
SessionLines ==
    << Program(<<VariableDeclaration("x", Num(5))>>),
       Program(<<Stmt(Set("x", Bin(Var("x"), "+", Num(1))))>>),
       Program(<<Stmt(Set("len", Num(7)))>>),
       Program(<<Stmt(Var("x"))>>),
       Program(<<Stmt(Var("len"))>>) >>

SessionAsts == {SessionLines[i] : i \in 1..Len(SessionLines)}

LineOf(a) == CHOOSE i \in 1..Len(SessionLines) : SessionLines[i] = a

\* the environments as they would be if interpret built a new global scope
InterpretEnvironmentFresh(es) == <<define_builtins>>

\* the environments interpret runs against: interpret assigns neither
\* self.globals nor self.environment, so they are the interpreter's own
InterpretEnvironment(es) == es

\* interpret(ast) is entered again on the same interpreter, after an earlier
\* interpret returned
InterpretAgain(a) ==
    /\ status = "done"
    /\ ast \in SessionAsts
    /\ LineOf(ast) < LineOf(a)
    /\ ast' = a
    /\ envs' = InterpretEnvironment(envs)
    /\ IF a.type # "Program"
       THEN /\ status' = "done"
            /\ output' = Append(output, RuntimeError("ValueError"))
            /\ control' = Halt
            /\ stack' = <<>>
       ELSE IF a.body = <<>>
       THEN /\ status' = "done"
            /\ control' = Halt
            /\ stack' = <<>>
            /\ output' = output
       ELSE /\ status' = "running"
            /\ control' = Exec(a.body[1])
            /\ stack' = <<[k |-> "program", idx |-> 1]>>
            /\ output' = output
    /\ result' = HNone
    /\ last_expr' = HNone
    /\ UNCHANGED <<environment, calls, nobjs>>
    /\ ParserIdle
    /\ LexerIdle

SessionNext ==
    \/ \E a \in Asts \cup SessionAsts : Interpret(a)
    \/ \E a \in SessionAsts : InterpretAgain(a)
    \/ Step

SessionSpec == Init /\ [][SessionNext]_vars

(***************************************************************************)
(* NexusParser. A parse function is an operator from the token list and    *)
(* the value of self.current to its outcome:                               *)
(*   exc      "" when it returned, else the class of the exception raised  *)
(*   node     the node returned (NoNode for None)                          *)
(*   cur      self.current when it returned or raised                      *)
(*   errors   the diagnostics parse_statement printed meanwhile            *)
(*   diverges TRUE when the call never returns                             *)
(***************************************************************************)
Token(type, value) == [type |-> type, value |-> value]
EOF == Token("EOF", "")

POk(node, cur, errors) ==
    [exc |-> "", node |-> node, cur |-> cur, errors |-> errors, diverges |-> FALSE]
PErr(exc, cur, errors) ==
    [exc |-> exc, node |-> NoNode, cur |-> cur, errors |-> errors, diverges |-> FALSE]
PDiverges(cur, errors) ==
    [exc |-> "", node |-> NoNode, cur |-> cur, errors |-> errors, diverges |-> TRUE]
\* the call did not return normally
PFailed(r) == r.exc # "" \/ r.diverges

peek(toks, cur) == toks[cur + 1]
previous(toks, cur) == toks[cur]
is_at_end(toks, cur) == peek(toks, cur).type = "EOF"
advance(toks, cur) == IF is_at_end(toks, cur) THEN cur ELSE cur + 1
check(toks, cur, token_type) ==
    IF is_at_end(toks, cur) THEN FALSE ELSE peek(toks, cur).type = token_type
\* self.current after match(*types): it moved iff match returned True
match(toks, cur, types) ==
    IF \E t \in types : check(toks, cur, t) THEN advance(toks, cur) ELSE cur
consume(toks, cur, token_type) ==
    IF check(toks, cur, token_type)
    THEN POk(previous(toks, cur + 1), advance(toks, cur), 0)
    ELSE PErr("SyntaxError", cur, 0)

\* float(value) if '.' in value else int(value), for the text of a NUMBER token
NumberValue(text) ==
    LET r == ParseNumber(text) IN
    IF r.exc = "" THEN Ok(r.value.value) ELSE Err("ValueError")

\* the levels as they would be with parse_term and parse_factor interchanged
LevelTypesFactorBelowTerm ==
    << {"OR"}, {"AND"}, {"EQUAL", "NOT_EQUAL"},
       {"GREATER_THAN", "GREATER_EQUAL", "LESS_THAN", "LESS_EQUAL"},
       {"DIVIDE", "MULTIPLY", "MODULO"}, {"MINUS", "PLUS"} >>

\* the token types each binary level matches, lowest precedence first:
\* parse_logical_or, parse_logical_and, parse_equality, parse_comparison,
\* parse_term, parse_factor
LevelTypes ==
    << {"OR"}, {"AND"}, {"EQUAL", "NOT_EQUAL"},
       {"GREATER_THAN", "GREATER_EQUAL", "LESS_THAN", "LESS_EQUAL"},
       {"MINUS", "PLUS"}, {"DIVIDE", "MULTIPLY", "MODULO"} >>

\* the rest of a method once a call it made has returned or raised: r is that
\* call's outcome (computed once), K what the method does with it
Bind(r, K(_)) == CHOOSE after \in {K(outcome) : outcome \in {r}} : TRUE
\* the same when an exception of the call, or its never returning, ends the method
Then(r, K(_)) ==
    CHOOSE after \in {IF PFailed(outcome) THEN outcome ELSE K(outcome) : outcome \in {r}} :
        TRUE

RECURSIVE parse_assignment(_, _)
RECURSIVE ParseLevel(_, _, _)
RECURSIVE ParseLevelLoop(_, _, _, _)
RECURSIVE parse_unary(_, _)
RECURSIVE parse_primary(_, _)
RECURSIVE parse_statement(_, _)
RECURSIVE ParseBodyLoop(_, _, _, _)

parse_expression(toks, cur) == parse_assignment(toks, cur)

\* the tests of parse_primary that follow the keyword test
PrimaryAfterKeyword(toks, c) ==
    IF check(toks, c, "NUMBER")
    THEN Bind(NumberValue(peek(toks, c).value), LAMBDA n :
              IF n.exc = "" THEN POk(Literal(n.value), c + 1, 0)
              ELSE PErr(n.exc, c + 1, 0))
    ELSE IF check(toks, c, "STRING") THEN POk(Literal(HStr(peek(toks, c).value)), c + 1, 0)
    ELSE IF check(toks, c, "IDENTIFIER") THEN POk(Identifier(peek(toks, c).value), c + 1, 0)
    ELSE IF check(toks, c, "LEFT_PAREN")
    THEN Then(parse_expression(toks, c + 1), LAMBDA expr :
         Then(consume(toks, expr.cur, "RIGHT_PAREN"), LAMBDA paren :
              POk(expr.node, paren.cur, 0)))
    ELSE PErr("SyntaxError", c, 0)

parse_primary(toks, cur) ==
    IF check(toks, cur, "KEYWORD")
    THEN IF peek(toks, cur).value \in {"true", "false"}
         THEN POk(Literal(HBool(peek(toks, cur).value = "true")), cur + 1, 0)
         ELSE IF peek(toks, cur).value = "null" THEN POk(Literal(HNone), cur + 1, 0)
         \* a keyword that is no literal is consumed, and the tests below go on
         ELSE PrimaryAfterKeyword(toks, cur + 1)
    ELSE PrimaryAfterKeyword(toks, cur)

parse_unary(toks, cur) ==
    IF check(toks, cur, "NOT") \/ check(toks, cur, "MINUS")
    THEN Then(parse_unary(toks, cur + 1), LAMBDA right :
              POk(UnaryExpression(peek(toks, cur).value, right.node), right.cur, 0))
    ELSE parse_primary(toks, cur)

\* the while loop of a binary level: expr is the tree folded so far
ParseLevelLoop(toks, cur, level, expr) ==
    IF match(toks, cur, LevelTypes[level]) = cur THEN POk(expr, cur, 0)
    ELSE Then(ParseLevel(toks, cur + 1, level + 1), LAMBDA right :
              ParseLevelLoop(toks, right.cur, level,
                             BinaryExpression(expr, peek(toks, cur).value, right.node)))

ParseLevel(toks, cur, level) ==
    IF level > Len(LevelTypes) THEN parse_unary(toks, cur)
    ELSE Then(ParseLevel(toks, cur, level + 1), LAMBDA expr :
              ParseLevelLoop(toks, expr.cur, level, expr.node))

parse_logical_or(toks, cur) == ParseLevel(toks, cur, 1)

\* parse_assignment as it would be with a test of the target's shape
ParseAssignmentChecked(toks, cur) ==
    Then(parse_logical_or(toks, cur), LAMBDA expr :
         IF ~check(toks, expr.cur, "ASSIGN") THEN expr
         ELSE IF expr.node.type # "Identifier" THEN PErr("SyntaxError", expr.cur, 0)
         ELSE Then(parse_assignment(toks, expr.cur + 1), LAMBDA value :
                   POk(AssignmentExpression(expr.node, value.node), value.cur, 0)))

parse_assignment(toks, cur) ==
    Then(parse_logical_or(toks, cur), LAMBDA expr :
         IF ~check(toks, expr.cur, "ASSIGN") THEN expr
         ELSE Then(parse_assignment(toks, expr.cur + 1), LAMBDA value :
                   POk(AssignmentExpression(expr.node, value.node), value.cur, 0)))

parse_variable_declaration(toks, cur) ==
    Then(consume(toks, cur, "IDENTIFIER"), LAMBDA name :
         IF ~check(toks, name.cur, "ASSIGN")
         THEN POk(VariableDeclaration(name.node.value, NoNode),
                  match(toks, name.cur, {"SEMICOLON"}), 0)
         ELSE Then(parse_expression(toks, name.cur + 1), LAMBDA initializer :
                   POk(VariableDeclaration(name.node.value, initializer.node),
                       match(toks, initializer.cur, {"SEMICOLON"}), 0)))

\* the parameter list after the first name: while self.match(COMMA)
RECURSIVE ParseParameters(_, _, _)
ParseParameters(toks, cur, parameters) ==
    IF ~check(toks, cur, "COMMA") THEN POk(parameters, cur, 0)
    ELSE Then(consume(toks, cur + 1, "IDENTIFIER"), LAMBDA name :
              ParseParameters(toks, name.cur, Append(parameters, name.node.value)))

\* the loop over the body of a function: body and errors are what it has
\* collected so far. A statement that fails without consuming a token leaves the
\* parser where it was, and the loop runs it again without end.
ParseBodyLoop(toks, cur, body, errors) ==
    IF check(toks, cur, "RIGHT_BRACE") \/ is_at_end(toks, cur) THEN POk(body, cur, errors)
    ELSE IF check(toks, cur, "NEWLINE") THEN ParseBodyLoop(toks, cur + 1, body, errors)
    ELSE Bind(parse_statement(toks, cur), LAMBDA stmt :
              IF stmt.diverges \/ (stmt.node = NoNode /\ stmt.cur = cur)
              THEN PDiverges(cur, errors + stmt.errors)
              ELSE ParseBodyLoop(toks, stmt.cur,
                                 IF stmt.node # NoNode THEN Append(body, stmt.node)
                                 ELSE body,
                                 errors + stmt.errors))

\* the parameter list of parse_function_declaration, from the token after "("
ParseParameterList(toks, cur) ==
    IF check(toks, cur, "RIGHT_PAREN") THEN POk(<<>>, cur, 0)
    ELSE Then(consume(toks, cur, "IDENTIFIER"), LAMBDA first :
              ParseParameters(toks, first.cur, <<first.node.value>>))

parse_function_declaration(toks, cur) ==
    Then(consume(toks, cur, "IDENTIFIER"), LAMBDA name :
    Then(consume(toks, name.cur, "LEFT_PAREN"), LAMBDA lparen :
    Then(ParseParameterList(toks, lparen.cur), LAMBDA parameters :
    Then(consume(toks, parameters.cur, "RIGHT_PAREN"), LAMBDA rparen :
    Then(consume(toks, rparen.cur, "LEFT_BRACE"), LAMBDA lbrace :
    Then(ParseBodyLoop(toks, lbrace.cur, <<>>, 0), LAMBDA body :
    Bind(consume(toks, body.cur, "RIGHT_BRACE"), LAMBDA rbrace :
         IF PFailed(rbrace) THEN PErr(rbrace.exc, rbrace.cur, body.errors)
         ELSE POk(FunctionDeclaration(name.node.value, parameters.node, body.node),
                  rbrace.cur, body.errors))))))))

\* the keywords parse_statement dispatches to a method NexusParser does not
\* define: looking the method up raises AttributeError
UndefinedStatementParsers == {"if", "while", "return"}

\* what the try block of parse_statement does
ParseStatementBody(toks, cur) ==
    IF check(toks, cur, "KEYWORD") /\ peek(toks, cur).value = "var"
    THEN parse_variable_declaration(toks, cur + 1)
    ELSE IF check(toks, cur, "KEYWORD") /\ peek(toks, cur).value = "func"
    THEN parse_function_declaration(toks, cur + 1)
    ELSE IF check(toks, cur, "KEYWORD") /\ peek(toks, cur).value \in UndefinedStatementParsers
    THEN PErr("AttributeError", cur + 1, 0)
    \* any other keyword stays consumed when the expression statement is parsed
    ELSE Then(parse_expression(toks, match(toks, cur, {"KEYWORD"})), LAMBDA expr :
              POk(ExpressionStatement(expr.node), match(toks, expr.cur, {"SEMICOLON"}), 0))

\* whether parse_statement's except clause makes the statement None
StatementDropped(r) == r.exc # ""

\* try: ... except Exception: print the diagnostic, return None
parse_statement(toks, cur) ==
    Bind(ParseStatementBody(toks, cur), LAMBDA r :
         IF r.diverges THEN r
         ELSE IF StatementDropped(r) THEN POk(NoNode, r.cur, r.errors + 1)
         ELSE r)

(***************************************************************************)
(* parse(): the while loop over the statements, one action per step.       *)
(***************************************************************************)
InterpreterIdle == UNCHANGED ivars

\* NexusParser(tokens).parse() is entered
ParseBegin(toks) ==
    /\ pstatus = "idle"
    /\ tokens' = toks
    /\ current' = 0
    /\ statements' = <<>>
    /\ perrors' = 0
    /\ pstatus' = "loop"
    /\ InterpreterIdle
    /\ LexerIdle

\* while not self.is_at_end(): into the body, or return the Program node
ParseLoopTest ==
    /\ pstatus = "loop"
    /\ pstatus' = IF is_at_end(tokens, current) THEN "done" ELSE "body"
    /\ UNCHANGED <<tokens, current, statements, perrors>>
    /\ InterpreterIdle
    /\ LexerIdle

\* if self.match(TokenType.NEWLINE): continue
ParseSkipNewline ==
    /\ pstatus = "body"
    /\ check(tokens, current, "NEWLINE")
    /\ current' = current + 1
    /\ pstatus' = "loop"
    /\ UNCHANGED <<tokens, statements, perrors>>
    /\ InterpreterIdle
    /\ LexerIdle

\* stmt = self.parse_statement(); if stmt: statements.append(stmt)
ParseStatement ==
    /\ pstatus = "body"
    /\ ~check(tokens, current, "NEWLINE")
    /\ LET stmt == parse_statement(tokens, current) IN
       /\ pstatus' = IF stmt.diverges THEN "diverged" ELSE "loop"
       /\ current' = stmt.cur
       /\ statements' = IF stmt.node # NoNode THEN Append(statements, stmt.node)
                        ELSE statements
       /\ perrors' = stmt.errors
    /\ UNCHANGED tokens
    /\ InterpreterIdle
    /\ LexerIdle

\* the Program node parse() returns
ParsedProgram == Program(statements)

\* the tokens the generated inputs are built from
TokenPool ==
    { Token("KEYWORD", "func"), Token("KEYWORD", "var"),
      Token("IDENTIFIER", "x"), Token("NUMBER", "1"),
      Token("ASSIGN", "="), Token("PLUS", "+"),
      Token("LEFT_PAREN", "("), Token("RIGHT_PAREN", ")"),
      Token("NEWLINE", "\n") }

\* func ( NEWLINE var x = 1 ;      (the function name is missing)
MissingNameTokens ==
    << Token("KEYWORD", "func"), Token("LEFT_PAREN", "("), Token("NEWLINE", "\n"),
       Token("KEYWORD", "var"), Token("IDENTIFIER", "x"), Token("ASSIGN", "="),
       Token("NUMBER", "1"), Token("SEMICOLON", ";") >>

\* func ( ) { } NEWLINE var x = 1 ;
MissingNameWithBodyTokens ==
    << Token("KEYWORD", "func"), Token("LEFT_PAREN", "("), Token("RIGHT_PAREN", ")"),
       Token("LEFT_BRACE", "{"), Token("RIGHT_BRACE", "}"), Token("NEWLINE", "\n"),
       Token("KEYWORD", "var"), Token("IDENTIFIER", "x"), Token("ASSIGN", "="),
       Token("NUMBER", "1"), Token("SEMICOLON", ";") >>

\* func f ( x , y ) { var x = 1 ; x + y } NEWLINE x = 1
FunctionTokens ==
    << Token("KEYWORD", "func"), Token("IDENTIFIER", "f"), Token("LEFT_PAREN", "("),
       Token("IDENTIFIER", "x"), Token("COMMA", ","), Token("IDENTIFIER", "y"),
       Token("RIGHT_PAREN", ")"), Token("LEFT_BRACE", "{"),
       Token("KEYWORD", "var"), Token("IDENTIFIER", "x"), Token("ASSIGN", "="),
       Token("NUMBER", "1"), Token("SEMICOLON", ";"),
       Token("IDENTIFIER", "x"), Token("PLUS", "+"), Token("IDENTIFIER", "y"),
       Token("RIGHT_BRACE", "}"), Token("NEWLINE", "\n"),
       Token("IDENTIFIER", "x"), Token("ASSIGN", "="), Token("NUMBER", "1") >>

\* func f ( ) { ) }      (a statement of the body fails without consuming)
BodyStuckTokens ==
    << Token("KEYWORD", "func"), Token("IDENTIFIER", "f"), Token("LEFT_PAREN", "("),
       Token("RIGHT_PAREN", ")"), Token("LEFT_BRACE", "{"), Token("RIGHT_PAREN", ")"),
       Token("RIGHT_BRACE", "}") >>

\* class true - x ; if ( x ) x
KeywordTokens ==
    << Token("KEYWORD", "class"), Token("KEYWORD", "true"), Token("MINUS", "-"),
       Token("IDENTIFIER", "x"), Token("SEMICOLON", ";"),
       Token("KEYWORD", "if"), Token("LEFT_PAREN", "("), Token("IDENTIFIER", "x"),
       Token("RIGHT_PAREN", ")"), Token("IDENTIFIER", "x") >>

\* expressions without parentheses: operands a, b, c, ... in this order, each
\* bare or negated, joined by up to MaxOperators operators, one of each level
MaxOperators == 2
OperandNames == <<"a", "b", "c", "d", "e">>
OperatorTokens ==
    { Token("ASSIGN", "="), Token("OR", "||"), Token("AND", "&&"), Token("EQUAL", "=="),
      Token("LESS_THAN", "<"), Token("MINUS", "-"), Token("MULTIPLY", "*") }
OperandTokens(i) ==
    { <<Token("IDENTIFIER", OperandNames[i])>>,
      <<Token("MINUS", "-"), Token("IDENTIFIER", OperandNames[i])>> }

RECURSIVE ExpressionTokens(_)
ExpressionTokens(k) ==
    IF k = 0 THEN OperandTokens(1)
    ELSE {e \o <<op>> \o operand :
             e \in ExpressionTokens(k - 1), op \in OperatorTokens,
             operand \in OperandTokens(k + 1)}

\* ! a == b      ! - a * b      a % b / c      a >= b != c
NotTokens ==
    { << Token("NOT", "!"), Token("IDENTIFIER", "a"), Token("EQUAL", "=="),
         Token("IDENTIFIER", "b") >>,
      << Token("NOT", "!"), Token("MINUS", "-"), Token("IDENTIFIER", "a"),
         Token("MULTIPLY", "*"), Token("IDENTIFIER", "b") >>,
      << Token("IDENTIFIER", "a"), Token("MODULO", "%"), Token("IDENTIFIER", "b"),
         Token("DIVIDE", "/"), Token("IDENTIFIER", "c") >>,
      << Token("IDENTIFIER", "a"), Token("GREATER_EQUAL", ">="), Token("IDENTIFIER", "b"),
         Token("NOT_EQUAL", "!="), Token("IDENTIFIER", "c") >> }

ExpressionInputs ==
    {Append(toks, EOF) :
        toks \in UNION {ExpressionTokens(k) : k \in 0..MaxOperators} \cup NotTokens}

\* if ( x ) y      while ( x ) y      return x      func f ( ) { return x }
StatementKeywordTokens ==
    { << Token("KEYWORD", "if"), Token("LEFT_PAREN", "("), Token("IDENTIFIER", "x"),
         Token("RIGHT_PAREN", ")"), Token("IDENTIFIER", "y") >>,
      << Token("KEYWORD", "while"), Token("LEFT_PAREN", "("), Token("IDENTIFIER", "x"),
         Token("RIGHT_PAREN", ")"), Token("IDENTIFIER", "y") >>,
      << Token("KEYWORD", "return"), Token("IDENTIFIER", "x") >>,
      << Token("KEYWORD", "func"), Token("IDENTIFIER", "f"), Token("LEFT_PAREN", "("),
         Token("RIGHT_PAREN", ")"), Token("LEFT_BRACE", "{"), Token("KEYWORD", "return"),
         Token("IDENTIFIER", "x"), Token("RIGHT_BRACE", "}") >> }

\* 1 = b      ( a ) = b      ( 1 ) = b      "s" = b
AssignmentTargetTokens ==
    { << Token("NUMBER", "1"), Token("ASSIGN", "="), Token("IDENTIFIER", "b") >>,
      << Token("LEFT_PAREN", "("), Token("IDENTIFIER", "a"), Token("RIGHT_PAREN", ")"),
         Token("ASSIGN", "="), Token("IDENTIFIER", "b") >>,
      << Token("LEFT_PAREN", "("), Token("NUMBER", "1"), Token("RIGHT_PAREN", ")"),
         Token("ASSIGN", "="), Token("IDENTIFIER", "b") >>,
      << Token("STRING", "s"), Token("ASSIGN", "="), Token("IDENTIFIER", "b") >> }

\* the tokens that start no primary expression and no unary expression
NonPrimaryTokens ==
    { Token("KEYWORD", "class"), Token("KEYWORD", "if"), Token("KEYWORD", "var"),
      Token("RIGHT_PAREN", ")"), Token("RIGHT_BRACE", "}"), Token("COMMA", ","),
      Token("ASSIGN", "="), Token("PLUS", "+"), Token("SEMICOLON", ";"),
      Token("NEWLINE", "\n") }

\* a + T b, and a + T, for each such token T: T is at primary position
PrimaryPositionTokens ==
    { << Token("IDENTIFIER", "a"), Token("PLUS", "+"), other, Token("IDENTIFIER", "b") >> :
        other \in NonPrimaryTokens }
    \cup { << Token("IDENTIFIER", "a"), Token("PLUS", "+"), other >> :
             other \in NonPrimaryTokens }

TokenInputs ==
    {Append(toks, EOF) :
        toks \in SeqsUpTo(TokenPool, MaxTokens)
                 \cup {MissingNameTokens, MissingNameWithBodyTokens, FunctionTokens,
                       BodyStuckTokens, KeywordTokens}
                 \cup StatementKeywordTokens \cup AssignmentTargetTokens
                 \cup PrimaryPositionTokens}
    \cup ExpressionInputs

InterpreterUnused ==
    /\ envs = <<>>
    /\ environment = 0
    /\ status = "unused"
    /\ ast = NoNode
    /\ control = Halt
    /\ stack = <<>>
    /\ result = HNone
    /\ output = <<>>
    /\ calls = <<>>
    /\ nobjs = 0
    /\ last_expr = HNone

ParserInit == InterpreterUnused /\ ParserUnused /\ LexerUnused

ParserNext ==
    \/ \E toks \in TokenInputs : ParseBegin(toks)
    \/ ParseLoopTest
    \/ ParseSkipNewline
    \/ ParseStatement

ParserSpec == ParserInit /\ [][ParserNext]_vars

\* the parser runs on its own thread of control: a step that can be taken is taken
ParserFairSpec == ParserSpec /\ WF_vars(ParserNext)

(***************************************************************************)
(* NexusLexer. The source is the sequence of its characters; a scanner     *)
(* position is the record of self.position, self.line and self.column.     *)
(***************************************************************************)
\* None, returned by current_char and peek_char past the end of the source
NoChar == "<None>"

LexToken(type, value, ln, col) ==
    [type |-> type, value |-> value, line |-> ln, column |-> col]

Lexer(pos, ln, col) == [position |-> pos, line |-> ln, column |-> col]

Keywords ==
    {"func", "var", "const", "if", "else", "elif", "while", "for", "in", "return",
     "break", "continue", "class", "interface", "struct", "enum", "import", "export",
     "from", "as", "try", "catch", "finally", "throw", "async", "await", "yield",
     "match", "when", "default", "true", "false", "null", "and", "or", "not", "is",
     "typeof", "new", "delete", "this", "super", "static", "private", "public",
     "protected", "abstract", "final", "override", "virtual"}

\* str.isdigit and str.isalpha on the characters the sources are built from
DigitChars == {"0", "1", "2", "3", "4", "5", "6", "7", "8", "9"}
AlphaChars ==
    {"a", "b", "c", "d", "e", "f", "g", "h", "i", "j", "k", "l", "m", "n", "o", "p",
     "q", "r", "s", "t", "u", "v", "w", "x", "y", "z", "A", "B", "X", "Z"}
isdigit(c) == c \in DigitChars
isalpha(c) == c \in AlphaChars
isalnum(c) == isalpha(c) \/ isdigit(c)

current_char(s, lx) == IF lx.position >= Len(s) THEN NoChar ELSE s[lx.position + 1]

peek_char(s, lx, offset) ==
    LET peek_pos == lx.position + offset
    IN  IF peek_pos >= Len(s) THEN NoChar ELSE s[peek_pos + 1]

\* NexusLexer.advance
LexerAdvance(s, lx) ==
    IF lx.position < Len(s)
    THEN IF current_char(s, lx) = "\n"
         THEN Lexer(lx.position + 1, lx.line + 1, 1)
         ELSE Lexer(lx.position + 1, lx.line, lx.column + 1)
    ELSE lx

RECURSIVE skip_whitespace(_, _)
skip_whitespace(s, lx) ==
    IF current_char(s, lx) \in {" ", "\t", "\r"}
    THEN skip_whitespace(s, LexerAdvance(s, lx))
    ELSE lx

\* while self.current_char() and self.current_char() != '\n': self.advance()
RECURSIVE SkipLine(_, _)
SkipLine(s, lx) ==
    IF current_char(s, lx) # NoChar /\ current_char(s, lx) # "\n"
    THEN SkipLine(s, LexerAdvance(s, lx))
    ELSE lx

\* the loop of skip_comment over the text of a block comment
RECURSIVE SkipBlock(_, _)
SkipBlock(s, lx) ==
    IF current_char(s, lx) = NoChar THEN lx
    ELSE IF current_char(s, lx) = "*" /\ peek_char(s, lx, 1) = "/"
    THEN LexerAdvance(s, LexerAdvance(s, lx))
    ELSE SkipBlock(s, LexerAdvance(s, lx))

skip_comment(s, lx) ==
    IF current_char(s, lx) = "#" THEN SkipLine(s, lx)
    ELSE IF current_char(s, lx) = "/" /\ peek_char(s, lx, 1) = "/" THEN SkipLine(s, lx)
    ELSE IF current_char(s, lx) = "/" /\ peek_char(s, lx, 1) = "*"
    THEN SkipBlock(s, LexerAdvance(s, LexerAdvance(s, lx)))
    ELSE lx

\* what a read_* method leaves: the scanner position and the token it returns
Read(lx, token) == [lx |-> lx, token |-> token]

RECURSIVE ReadNumberLoop(_, _, _, _, _)
ReadNumberLoop(s, lx, start_column, num_str, has_dot) ==
    LET c == current_char(s, lx) IN
    IF c # NoChar /\ (isdigit(c) \/ c = ".") /\ ~(c = "." /\ has_dot)
    THEN ReadNumberLoop(s, LexerAdvance(s, lx), start_column, num_str \o c,
                        has_dot \/ c = ".")
    ELSE Read(lx, LexToken("NUMBER", num_str, lx.line, start_column))

read_number(s, lx) == ReadNumberLoop(s, lx, lx.column, "", FALSE)

\* the text an escape sequence adds to the value of a string
Escape(escape_char, quote) ==
    CASE escape_char = "n" -> "\n"
      [] escape_char = "t" -> "\t"
      [] escape_char = "r" -> "\r"
      [] escape_char = "\\" -> "\\"
      [] escape_char = quote -> quote
      [] escape_char = NoChar -> ""
      [] OTHER -> escape_char

RECURSIVE ReadStringLoop(_, _, _, _, _)
ReadStringLoop(s, lx, start_column, quote, value) ==
    LET c == current_char(s, lx) IN
    IF c # NoChar /\ c # quote
    THEN IF c = "\\"
         THEN LET escaped == LexerAdvance(s, lx)
                  escape_char == current_char(s, escaped)
              IN  ReadStringLoop(s,
                                 IF escape_char # NoChar THEN LexerAdvance(s, escaped)
                                 ELSE escaped,
                                 start_column, quote, value \o Escape(escape_char, quote))
         ELSE ReadStringLoop(s, LexerAdvance(s, lx), start_column, quote, value \o c)
    ELSE LET closed == IF c = quote THEN LexerAdvance(s, lx) ELSE lx
         IN  Read(closed, LexToken("STRING", value, closed.line, start_column))

read_string(s, lx, quote) ==
    ReadStringLoop(s, LexerAdvance(s, lx), lx.column, quote, "")

RECURSIVE ReadIdentifierLoop(_, _, _, _)
ReadIdentifierLoop(s, lx, start_column, value) ==
    LET c == current_char(s, lx) IN
    IF c # NoChar /\ (isalnum(c) \/ c \in {"_", "$"})
    THEN ReadIdentifierLoop(s, LexerAdvance(s, lx), start_column, value \o c)
    ELSE Read(lx, LexToken(IF value \in Keywords THEN "KEYWORD" ELSE "IDENTIFIER",
                           value, lx.line, start_column))

read_identifier(s, lx) == ReadIdentifierLoop(s, lx, lx.column, "")

\* the list tokenize tests two_char against
TwoCharOperators ==
    {"==", "!=", "<=", ">=", "=>", "->", "&&", "||", "**", "//", "++", "--"}

token_map ==
    [op \in {"==", "!=", "<=", ">=", "=>", "->", "&&", "||", "**", "//"} |->
        CASE op = "==" -> "EQUAL"
          [] op = "!=" -> "NOT_EQUAL"
          [] op = "<=" -> "LESS_EQUAL"
          [] op = ">=" -> "GREATER_EQUAL"
          [] op = "=>" -> "ARROW"
          [] op = "->" -> "ARROW"
          [] op = "&&" -> "AND"
          [] op = "||" -> "OR"
          [] op = "**" -> "POWER"
          [] op = "//" -> "DIVIDE"]

single_char_map ==
    [c \in {"+", "-", "*", "/", "%", "=", "<", ">", "!", "(", ")", "{", "}", "[", "]",
            ";", ",", ".", ":"} |->
        CASE c = "+" -> "PLUS"
          [] c = "-" -> "MINUS"
          [] c = "*" -> "MULTIPLY"
          [] c = "/" -> "DIVIDE"
          [] c = "%" -> "MODULO"
          [] c = "=" -> "ASSIGN"
          [] c = "<" -> "LESS_THAN"
          [] c = ">" -> "GREATER_THAN"
          [] c = "!" -> "NOT"
          [] c = "(" -> "LEFT_PAREN"
          [] c = ")" -> "RIGHT_PAREN"
          [] c = "{" -> "LEFT_BRACE"
          [] c = "}" -> "RIGHT_BRACE"
          [] c = "[" -> "LEFT_BRACKET"
          [] c = "]" -> "RIGHT_BRACKET"
          [] c = ";" -> "SEMICOLON"
          [] c = "," -> "COMMA"
          [] c = "." -> "DOT"
          [] c = ":" -> "COLON"]

\* what one pass through the body of tokenize's loop does: the scanner position
\* it leaves, the tokens it appends, the positions it warns about, and whether
\* it leaves the loop by `break`
Scanned(lx, toks, warnings, brk) ==
    [lx |-> lx, toks |-> toks, warnings |-> warnings, brk |-> brk]

\* the unknown-character branch as it would be without its advance()
ScanUnknownStuck(s, lx, at) == Scanned(lx, <<>>, {at}, FALSE)

\* print the warning about the character at `at`, advance
ScanUnknown(s, lx, at) == Scanned(LexerAdvance(s, lx), <<>>, {at}, FALSE)

\* the single-character tokens and the unknown character; `char` was read at
\* position `at`, and lx is where the scanner is now
ScanSingle(s, lx, char, at) ==
    IF char \in DOMAIN single_char_map
    THEN Scanned(LexerAdvance(s, lx),
                 <<LexToken(single_char_map[char], char, lx.line, lx.column)>>, {}, FALSE)
    ELSE ScanUnknown(s, lx, at)

\* the two-character operators, falling through to the single-character tokens
ScanOperator(s, lx, char) ==
    LET two_char == char \o (IF peek_char(s, lx, 1) = NoChar THEN ""
                             ELSE peek_char(s, lx, 1))
        after == LexerAdvance(s, LexerAdvance(s, lx))
    IN  IF two_char \in TwoCharOperators
        THEN IF two_char \in DOMAIN token_map
             THEN Scanned(after,
                          <<LexToken(token_map[two_char], two_char, after.line, lx.column)>>,
                          {}, FALSE)
             ELSE ScanSingle(s, after, char, lx.position)
        ELSE ScanSingle(s, lx, char, lx.position)

\* the body of the loop of tokenize, from the scanner position `before`
ScanToken(s, before) ==
    LET lx == skip_whitespace(s, before)
        char == current_char(s, lx)
    IN  IF char = NoChar THEN Scanned(lx, <<>>, {}, TRUE)
        ELSE IF char = "#" \/ (char = "/" /\ peek_char(s, lx, 1) \in {"/", "*"})
        THEN Scanned(skip_comment(s, lx), <<>>, {}, FALSE)
        ELSE IF char = "\n"
        THEN Scanned(LexerAdvance(s, lx), <<LexToken("NEWLINE", "\n", lx.line, lx.column)>>,
                     {}, FALSE)
        ELSE IF isdigit(char)
        THEN Scanned(read_number(s, lx).lx, <<read_number(s, lx).token>>, {}, FALSE)
        ELSE IF char \in {"\"", "'"}
        THEN Scanned(read_string(s, lx, char).lx, <<read_string(s, lx, char).token>>,
                     {}, FALSE)
        ELSE IF isalpha(char) \/ char \in {"_", "$"}
        THEN Scanned(read_identifier(s, lx).lx, <<read_identifier(s, lx).token>>, {}, FALSE)
        ELSE ScanOperator(s, lx, char)

\* the position at which the pass from `before` begins its token
TokenStart(s, before) == skip_whitespace(s, before).position

\* NexusLexer(source).tokenize() is entered
TokenizeBegin(src) ==
    /\ lstatus = "idle"
    /\ source' = src
    /\ position' = 0
    /\ line' = 1
    /\ column' = 1
    /\ ltokens' = <<>>
    /\ warned' = {}
    /\ starts' = <<>>
    /\ lstatus' = "loop"
    /\ InterpreterIdle
    /\ ParserIdle

\* self.tokens.append(Token(TokenType.EOF, '', self.line, self.column));
\* return self.tokens
TokenizeReturn(lx) ==
    /\ ltokens' = Append(ltokens, LexToken("EOF", "", lx.line, lx.column))
    /\ starts' = Append(starts, lx.position)
    /\ position' = lx.position
    /\ line' = lx.line
    /\ column' = lx.column
    /\ lstatus' = "done"

\* while self.current_char(): into the body, or out of the loop
TokenizeLoopTest ==
    /\ lstatus = "loop"
    /\ IF current_char(source, Lexer(position, line, column)) # NoChar
       THEN /\ lstatus' = "body"
            /\ UNCHANGED <<position, line, column, ltokens, starts>>
       ELSE TokenizeReturn(Lexer(position, line, column))
    /\ UNCHANGED <<source, warned>>
    /\ InterpreterIdle
    /\ ParserIdle

\* one pass through the body of the loop
TokenizeScan ==
    /\ lstatus = "body"
    /\ LET before == Lexer(position, line, column)
           r == ScanToken(source, before)
       IN  IF r.brk
           THEN /\ TokenizeReturn(r.lx)
                /\ warned' = warned
           ELSE /\ ltokens' = ltokens \o r.toks
                /\ starts' = starts \o [i \in 1..Len(r.toks) |-> TokenStart(source, before)]
                /\ warned' = warned \cup r.warnings
                /\ position' = r.lx.position
                /\ line' = r.lx.line
                /\ column' = r.lx.column
                /\ lstatus' = "loop"
    /\ UNCHANGED source
    /\ InterpreterIdle
    /\ ParserIdle

(***************************************************************************)
(* The source texts given to the lexer.                                    *)
(***************************************************************************)
MaxSource == 2
Alphabet == {"a", "1", "+", "=", "/", "*", "\"", "\\", "\n", " ", "@"}

GeneratedSources == SeqsUpTo(Alphabet, MaxSource)

\* the two-character operators, each followed by an identifier
OperatorSources ==
    {<<"=", "=", "a">>, <<"!", "=", "a">>, <<"<", "=", "a">>, <<">", "=", "a">>,
     <<"=", ">", "a">>, <<"-", ">", "a">>, <<"&", "&", "a">>, <<"|", "|", "a">>,
     <<"*", "*", "a">>, <<"+", "+", "a">>, <<"-", "-", "a">>, <<"-", "-", "\n", "a">>}

\* comments, numbers, names and strings, closed and left open
TextSources ==
    {<<"/", "*", "a", "*", "/", "1">>,
     <<"/", "*", "a", "*">>,
     <<"@", "\"", "\\">>,
     <<"\"", "\\", "\"">>,
     <<"#", "a", "\n", "1">>,
     <<"1", ".", "5", ".", "2">>,
     <<"v", "a", "r", " ", "_", "x", "1">>,
     <<"'", "a", "\\", "n", "'", " ", "b">>,
     <<"\"", "a", "\n", "b", "\"", " ", "c">>,
     <<"a", "\t", "\r", "b", "?", "c">>}

Sources == GeneratedSources \cup OperatorSources \cup TextSources

LexerInit == InterpreterUnused /\ ParserUnused /\ LexerUnused

LexerNext ==
    \/ lstatus = "idle" /\ \E src \in Sources : TokenizeBegin(src)
    \/ TokenizeLoopTest
    \/ TokenizeScan

LexerSpec == LexerInit /\ [][LexerNext]_vars

\* tokenize runs to its end once called: a step that can be taken is taken
LexerFairSpec == LexerSpec /\ WF_vars(LexerNext)

(***************************************************************************)
(* Properties. Helpers first.                                              *)
(***************************************************************************)
\* the positions of the frames of user-function calls, innermost first
CallFrames == {i \in 1..Len(stack) : stack[i].k = "callbody"}
InCall == CallFrames # {}
ErrorReported == \E i \in 1..Len(output) : output[i].kind = "error"
Finished == status = "done"
\* global variable `name` of the finished or running interpreter
Global(name) == envs[1].variables[name]

\* C1: for every token sequence that ends in EOF, parse() terminates and returns
\* the Program node: every failed statement is dropped and the loop goes on to
\* EOF. Stated for the fair parser: parse() is eventually at its return.
ParseTerminates == <>(pstatus = "done")

\* C2: a return executed inside a user-function call, also under if branches
\* and while loops of the body, ends the call at once with the returned value:
\* from the raise on, every step only leaves one frame (no statement runs, no
\* loop takes the signal) until the frame of the call, which yields the value
\* and restores the caller's scope; f(n) of ReturnProgram returns from inside
\* its loop with n + 10 and reaches `i = 99` only when the loop ended.
ReturnPending ==
    Running /\ control.k = "raise" /\ control.exc = "ReturnValue" /\ InCall

ReturnEndsCall ==
    /\ [][ReturnPending =>
            IF Top.k = "callbody"
            THEN /\ control' = Value(control.v)
                 /\ stack' = Rest
                 /\ environment' = Top.previous_env
                 /\ Len(calls') = Len(calls) + 1
                 /\ calls'[Len(calls')].result = control.v
                 /\ calls'[Len(calls')].id = Top.fn.id
            ELSE /\ control' = control
                 /\ stack' = Rest
                 /\ UNCHANGED <<envs, environment, output, calls, result>>]_vars
    /\ [](\A n \in 0..2 :
            (Finished /\ ast = ReturnProgram(n))
                => result = Number(IF n < 2 THEN n + 10 ELSE 99))

\* C2 witness: the return signal of a return nested in an if in a while of a
\* function body is at the loop's frame
ReturnFromNestedLoop == ReturnPending /\ Top.k = "whilebody"

\* C3: a while loop tests its condition before every iteration and runs the
\* body only on a truthy value; a break in the body ends the innermost loop
\* only; a continue goes to the next test of the condition.
LoopFrame(kind, node) == [k |-> kind, node |-> node]
\* this step starts an execution of the body of the loop on top of the stack
BodyEntered ==
    /\ control'.k = "exec"
    /\ stack' # <<>>
    /\ stack'[1].k = "whilebody"
    /\ control'.node = stack'[1].node.body
    /\ <<control, stack>> # <<control', stack'>>

WhileLoopSemantics ==
    /\ [][/\ OnValue("whilecond") =>
                IF is_truthy(control.v)
                THEN /\ control' = Exec(Top.node.body)
                     /\ stack' = <<LoopFrame("whilebody", Top.node)>> \o Rest
                ELSE /\ control' = Value(HNone)
                     /\ stack' = Rest
          /\ BodyEntered =>
                /\ OnValue("whilecond")
                /\ is_truthy(control.v)
                /\ stack'[1].node = Top.node
          /\ OnValue("whilebody") =>
                /\ control' = Eval(Top.node.condition)
                /\ stack' = <<LoopFrame("whilecond", Top.node)>> \o Rest
          /\ (OnRaise("whilebody") /\ control.exc = "BreakException") =>
                /\ control' = Value(HNone)
                /\ stack' = Rest
          /\ (OnRaise("whilebody") /\ control.exc = "ContinueException") =>
                /\ control' = Eval(Top.node.condition)
                /\ stack' = <<LoopFrame("whilecond", Top.node)>> \o Rest]_vars
    /\ []((Finished /\ ast = NestedBreakProgram) => result = Number(2))
    /\ [](\A k \in 1..3 :
            (Finished /\ ast = ContinueProgram(k)) => result = Number(6 - k))

\* C3 witness: a break reaches the inner of two nested loops
BreakInInnerLoop ==
    /\ OnRaise("whilebody")
    /\ control.exc = "BreakException"
    /\ \E i \in 2..Len(stack) : stack[i].k = "whilebody"

\* C4: a call runs its body in a new scope whose parent is the scope the
\* function was declared in, never the caller's: the scope of every running
\* body has the function's closure as parent, a declaration captures the
\* current scope, a free name resolves in the defining chain although the
\* caller binds it too, and a name only the caller binds is unresolved.
\* the scope the body of the call at frame i runs in
BodyScope(i) ==
    LET inner == {j \in CallFrames : j < i} IN
    IF inner = {} THEN environment
    ELSE stack[CHOOSE j \in inner : \A m \in inner : m <= j].previous_env

StaticScoping ==
    /\ [](\A i \in CallFrames : envs[BodyScope(i)].parent = stack[i].fn.closure)
    /\ [][OnExec("FunctionDeclaration") =>
            envs'[environment].variables[control.node.name].value.closure
                = environment]_vars
    /\ []((Finished /\ ast = StaticScopeProgram) => result = Number(1))
    /\ []((Finished /\ ast = ReturnedClosureProgram) => result = Number(5))
    /\ []((Finished /\ ast = CallerOnlyProgram) =>
            (result = HNone /\ output = <<RuntimeError("NameError")>>))

\* C4 witness: g, called from h whose scope binds x to 2, returns the x of the
\* scope g was declared in
CalleeSeesDefiningScope ==
    /\ ast = StaticScopeProgram
    /\ OnRaise("callbody")
    /\ Top.fn.name = "g"
    /\ control = Raise("ReturnValue", Number(1))
    /\ get(envs, Top.previous_env, "x").value = Number(2)

\* C5: the captured scope is shared, not copied: in the counter programs the
\* k-th call of an inc yields the number of calls so far of the inc obtained
\* from the same make() call (1, then 2, ...), whatever calls of the other inc
\* come in between, and the two inc values have different closures.
\* the names called by the counter program a, in order
CallNames(a) == [i \in 1..(Len(a.body) - Len(CounterPrelude)) |->
                    a.body[i + Len(CounterPrelude)].expression.callee.name]
IncCalls == SelectSeq(calls, LAMBDA c : c.name = "inc")

ClosureShared ==
    ast \in CounterPrograms =>
        LET who == CallNames(ast) IN
        /\ Len(IncCalls) <= Len(who)
        /\ Finished => Len(IncCalls) = Len(who)
        /\ \A k \in 1..Len(IncCalls) :
              /\ IncCalls[k].result =
                    Number(Cardinality({j \in 1..k : who[j] = who[k]}))
              /\ \A j \in 1..k :
                    (IncCalls[j].closure = IncCalls[k].closure) <=> (who[j] = who[k])

\* C5 witness: a(); b(); a(); has run: the second call of a yielded 2 after
\* the call of b yielded 1
SecondCallYieldsTwo ==
    /\ Finished
    /\ ast = CounterProgram(<<"a", "b", "a">>)
    /\ Len(IncCalls) = 3
    /\ IncCalls[2].result = Number(1)
    /\ IncCalls[3].result = Number(2)

\* C6: an assignment replaces the binding in the nearest scope of the current
\* chain that defines the name and changes nothing else; it never adds a name
\* to a scope; with no defining scope it raises NameError and leaves every
\* scope as it was.
\* the scopes from e outward
RECURSIVE ScopeChain(_, _)
ScopeChain(es, e) == IF e = 0 THEN <<>> ELSE <<e>> \o ScopeChain(es, es[e].parent)

AssignmentStep == OnValue("assign") /\ Top.node.left.type = "Identifier"

AssignNearest ==
    /\ [][AssignmentStep =>
            LET name == Top.node.left.name
                chain == ScopeChain(envs, environment)
                defining == {i \in 1..Len(chain) : name \in DOMAIN envs[chain[i]].variables}
            IN  IF defining = {}
                THEN /\ control' = Raise("NameError", HNone)
                     /\ envs' = envs
                ELSE LET nearest == chain[CHOOSE i \in defining : \A j \in defining : i <= j] IN
                     /\ control' = Value(control.v)
                     /\ Len(envs') = Len(envs)
                     /\ \A e \in 1..Len(envs) :
                          /\ envs'[e].parent = envs[e].parent
                          /\ DOMAIN envs'[e].variables = DOMAIN envs[e].variables
                          /\ \A n \in DOMAIN envs[e].variables :
                                envs'[e].variables[n] =
                                    IF e = nearest /\ n = name THEN control.v
                                    ELSE envs[e].variables[n]]_vars
    /\ []((Finished /\ ast = AssignProgram) =>
            /\ Global("x") = Number(3)
            /\ Global("y") = Number(8)
            /\ "z" \notin DOMAIN envs[1].variables
            /\ output = <<RuntimeError("NameError")>>)
    /\ []((Finished /\ ast = AssignUndefinedInCallProgram) =>
            /\ \A e \in 1..Len(envs) : "w" \notin DOMAIN envs[e].variables
            /\ output = <<RuntimeError("NameError")>>)

\* C6 witness: g has assigned 7 to the x of f's scope, two scopes up from
\* nowhere nearer: g's own scope has no x and the global x still is 1
AssignedInEnclosingScope ==
    /\ ast = AssignProgram
    /\ Running
    /\ "x" \notin DOMAIN envs[environment].variables
    /\ envs[environment].parent # 0
    /\ "x" \in DOMAIN envs[envs[environment].parent].variables
    /\ envs[envs[environment].parent].variables["x"] = Number(7)
    /\ Global("x") = Number(1)

\* C7: a var declaration executed in scope S binds the name in S only: no other
\* scope changes, S gains or replaces this one binding, lookups from S and from
\* the scopes below S that do not bind the name themselves see it, and after a
\* call of a function that declares x locally the outer x has its old value.
DeclarationStep ==
    \/ OnExec("VariableDeclaration") /\ control.node.initializer = NoNode
    \/ OnValue("vardecl")
DeclaredName == IF control.k = "exec" THEN control.node.name ELSE Top.node.name
DeclaredValue == IF control.k = "exec" THEN NullValue ELSE control.v
\* scope e looks the name up through S, with no binding of it nearer than S
LooksThrough(e, S, name) ==
    LET chain == ScopeChain(envs, e) IN
    \E i \in 1..Len(chain) :
        /\ chain[i] = S
        /\ \A j \in 1..(i - 1) : name \notin DOMAIN envs[chain[j]].variables

DeclarationBindsInScope ==
    /\ [][DeclarationStep =>
            /\ Len(envs') = Len(envs)
            /\ \A e \in 1..Len(envs) : e # environment => envs'[e] = envs[e]
            /\ envs'[environment].parent = envs[environment].parent
            /\ DOMAIN envs'[environment].variables =
                    DOMAIN envs[environment].variables \cup {DeclaredName}
            /\ \A n \in DOMAIN envs'[environment].variables :
                    envs'[environment].variables[n] =
                        IF n = DeclaredName THEN DeclaredValue
                        ELSE envs[environment].variables[n]
            /\ \A e \in 1..Len(envs) :
                    LooksThrough(e, environment, DeclaredName) =>
                        get(envs', e, DeclaredName) =
                            [found |-> TRUE, value |-> DeclaredValue]]_vars
    /\ [](\A v \in 1..2, w \in 1..2 :
            (Finished /\ ast = ShadowProgram(v, w)) =>
                /\ result = Number(v)
                /\ Global("x") = Number(v)
                /\ Global("r") = Number(w))

\* C7 witness: inside f the local x differs from the global x it shadows
LocalShadowsOuter ==
    /\ ast \in ShadowPrograms
    /\ Running
    /\ environment # 1
    /\ "x" \in DOMAIN envs[environment].variables
    /\ envs[environment].variables["x"] # Global("x")

\* C8: a call binds the i-th parameter to the i-th argument and null to the
\* parameters without an argument, ignores the arguments beyond the parameters,
\* executes the body statements in order and yields null when the body ends
\* without a return. (Of two parameters of one name the later binding stands.)
\* a call of a user function is about to be made with these arguments
CallStarts == 
    \/ OnValue("callee") /\ Top.node.arguments = <<>> /\ control.v.type_name = "function"
    \/ /\ OnValue("args")
       /\ Len(Top.arguments) + 1 = Len(Top.node.arguments)
       /\ Top.callee.type_name = "function"
StartedFunction == IF Top.k = "callee" THEN control.v.value ELSE Top.callee.value
StartedArguments == IF Top.k = "callee" THEN <<>> ELSE Append(Top.arguments, control.v)
\* what the name of parameter i is bound to in a call with these arguments
ExpectedBinding(parameters, arguments, i) ==
    LET same == {j \in 1..Len(parameters) : parameters[j] = parameters[i]}
        last == CHOOSE j \in same : \A m \in same : m <= j
    IN  IF last <= Len(arguments) THEN arguments[last] ELSE NullValue

ParameterBinding ==
    /\ [][/\ CallStarts =>
                LET fn == StartedFunction
                    scope == envs'[Len(envs')]
                IN  /\ Len(envs') = Len(envs) + 1
                    /\ \A e \in 1..Len(envs) : envs'[e] = envs[e]
                    /\ DOMAIN scope.variables =
                            {fn.parameters[i] : i \in 1..Len(fn.parameters)}
                    /\ \A i \in 1..Len(fn.parameters) :
                            scope.variables[fn.parameters[i]] =
                                ExpectedBinding(fn.parameters, StartedArguments, i)
                    /\ IF fn.body = <<>>
                       THEN control' = Value(NullValue) /\ environment' = environment
                       ELSE control' = Exec(fn.body[1]) /\ environment' = Len(envs')
          /\ OnValue("callbody") =>
                IF Top.idx < Len(Top.fn.body)
                THEN /\ control' = Exec(Top.fn.body[Top.idx + 1])
                     /\ stack' = <<[Top EXCEPT !.idx = Top.idx + 1]>> \o Rest
                ELSE /\ control' = Value(NullValue)
                     /\ stack' = Rest]_vars
    /\ [](\A a \in ParameterPrograms :
            (Finished /\ ast = a) =>
                LET parameters == a.body[3].parameters
                    n == Len(a.body[4].initializer.arguments)
                    arguments == [i \in 1..n |-> Number(10 * i)]
                IN  /\ Global("r") = NullValue
                    /\ Global("t") = IF Len(parameters) >= 1
                                     THEN ExpectedBinding(parameters, arguments, 1)
                                     ELSE Number(0)
                    /\ Global("u") = IF Len(parameters) >= 2
                                     THEN ExpectedBinding(parameters, arguments, 2)
                                     ELSE Number(0))

\* C8 witness: f(a, b) called with the one argument 10 starts its body with a
\* bound to 10 and b to null
MissingParameterIsNull ==
    /\ Running /\ control.k = "exec" /\ stack # <<>> /\ Top.k = "callbody"
    /\ Top.idx = 1
    /\ Top.fn.parameters = <<"a", "b">>
    /\ envs[environment].variables["a"] = Number(10)
    /\ envs[environment].variables["b"] = NullValue

\* C9 (as amended): interpret returns what executing the last top-level
\* statement returned: the value of the expression when that statement is an
\* expression statement, none when it is a declaration or a while loop, and
\* none for a program without statements.
LastStatement == ast.body[Len(ast.body)]
CleanFinish == Finished /\ ast.type = "Program" /\ ~ErrorReported

InterpretReturnsLastStatementResult ==
    /\ [][OnValue("program") => result' = control.v]_vars
    /\ [](CleanFinish =>
            IF ast.body = <<>> THEN result = HNone
            ELSE /\ LastStatement.type = "ExpressionStatement" => result = last_expr
                 /\ LastStatement.type \in {"VariableDeclaration", "FunctionDeclaration",
                                            "WhileStatement"} => result = HNone)

\* C9 witness: a program that evaluated an expression statement and ended with
\* a declaration returned none
DeclarationLastYieldsNone ==
    /\ CleanFinish
    /\ ast.body # <<>>
    /\ LastStatement.type = "VariableDeclaration"
    /\ last_expr # HNone
    /\ result = HNone

\* C9 (as claimed): interpret returns the value of the last top-level expression
\* statement it evaluated, or none when there was none, also when the last
\* top-level statement is a declaration or another non-expression statement.
InterpretReturnsLastExpressionValue == CleanFinish => result = last_expr

\* C10: interpret never raises to its caller: every failure, an unconsumed
\* return/break/continue signal and a root that is no Program included, is
\* caught and reported, interpret yields none, and no later top-level statement
\* is executed (a top-level statement starts only when interpret starts or the
\* statement before it has returned, and nothing runs once interpret returned).
TopLevelStatementStarts ==
    /\ control'.k = "exec"
    /\ stack' # <<>>
    /\ stack'[1].k = "program"
    /\ control'.node = ast'.body[stack'[1].idx]
    /\ <<control, stack>> # <<control', stack'>>

InterpretNeverRaises ==
    /\ [](status # "raised")
    /\ []((Finished /\ ErrorReported) =>
            (result = HNone /\ control = Halt /\ stack = <<>>))
    /\ [][/\ OnRaise("program") =>
                /\ status' = "done"
                /\ output' = Append(output, RuntimeError(control.exc))
                /\ result' = HNone
          /\ (status = "idle" /\ ast'.type # "Program") =>
                /\ status' = "done"
                /\ output' = Append(output, RuntimeError("ValueError"))
                /\ result' = HNone
          /\ TopLevelStatementStarts =>
                \/ status = "idle" /\ stack'[1].idx = 1
                \/ OnValue("program") /\ stack'[1].idx = Top.idx + 1
          /\ Finished => UNCHANGED ivars]_vars

\* C10 witness: a break at top level, followed by another statement, was
\* reported and interpret returned none
SignalReportedAtTopLevel ==
    /\ Finished
    /\ ast.type = "Program"
    /\ Len(ast.body) = 2
    /\ ast.body[1] = BreakStatement
    /\ output = <<RuntimeError("BreakException")>>
    /\ result = HNone

\* C11 (as amended): a new interpreter's top-level environment holds exactly the
\* six built-ins and its first interpret runs against it; every later interpret
\* on the same interpreter runs in the same top-level environment as the earlier
\* ones left it, so a binding made or changed earlier is visible: after
\* `var x = 5` and `x = x + 1` the line `x` yields 6, and after `len = 7` the
\* line `len` yields 7.  Top-level statements run in order.
InterpretEnters == status \in {"idle", "done"} /\ status' = "running"
InterpretKeepsEnvironment ==
    /\ [][InterpretEnters =>
            /\ environment' = 1
            /\ envs' = envs
            /\ status = "idle" => envs[1] = define_builtins
            /\ control' = Exec(ast'.body[1])]_vars
    /\ [][(OnValue("program") /\ status' = "running") =>
            /\ stack'[1].idx = stack[1].idx + 1
            /\ control' = Exec(ast.body[stack'[1].idx])]_vars
    /\ [][(Finished' /\ ~ErrorReported' /\ ast' = SessionLines[4]) =>
            result' = Global("x")]_vars
    /\ [][(Finished' /\ ast' = SessionLines[5]) => result' = Global("len")]_vars

\* C11 witness: the line `x` has returned 6, the value two earlier interprets
\* gave x
LaterInterpretSeesBinding ==
    /\ Finished
    /\ ast = SessionLines[4]
    /\ result = Number(6)

\* C11 (original claim): every interpret starts in a top-level environment that
\* holds exactly the six built-ins
InterpretStartsFresh ==
    [][InterpretEnters => envs'[1] = define_builtins]_vars

\* C12: for every source text, tokenize on a new lexer terminates (no step of it
\* raises: the model has no raising step since every indexing and membership
\* test of the code is guarded) and returns a token sequence whose last token
\* is EOF and that has no other EOF token; unknown characters, unterminated
\* strings, a trailing backslash in a string and unterminated block comments
\* included.
TokenizeTerminatesWithEOF ==
    /\ <>(lstatus = "done")
    /\ [](lstatus = "done" =>
            /\ ltokens # <<>>
            /\ ltokens[Len(ltokens)].type = "EOF"
            /\ \A i \in 1..(Len(ltokens) - 1) : ltokens[i].type # "EOF"
            /\ position = Len(source))

\* C12 witness: tokenize has returned for a source with an unknown character
\* followed by an unterminated string that ends in a backslash
TokenizedUnterminatedString ==
    /\ lstatus = "done"
    /\ source = <<"@", "\"", "\\">>
    /\ warned = {0}
    /\ Len(ltokens) = 2

\* C13: each of the two-character operators == != <= >= => -> && || ** ++ -- met
\* by the scanner is matched as one token whose text is those two characters,
\* and scanning resumes at the character right after them.
ClaimedOperators == {"==", "!=", "<=", ">=", "=>", "->", "&&", "||", "**", "++", "--"}
ScannerAt == TokenStart(source, Lexer(position, line, column))
MeetsOperator ==
    /\ lstatus = "body"
    /\ ScannerAt + 2 <= Len(source)
    /\ (source[ScannerAt + 1] \o source[ScannerAt + 2]) \in ClaimedOperators
TwoCharacterOperatorIsOneToken ==
    [][MeetsOperator =>
          /\ Len(ltokens') = Len(ltokens) + 1
          /\ ltokens'[Len(ltokens')].value = source[ScannerAt + 1] \o source[ScannerAt + 2]
          /\ position' = ScannerAt + 2]_vars

\* C14: every token returned by tokenize carries the 1-based line and column of
\* its first source character (for EOF: of the end of the source), the column
\* restarting at 1 and the line growing by one after each newline character.
NewlinesBefore(s, pos) == {i \in 1..pos : s[i] = "\n"}
LineAt(s, pos) == 1 + Cardinality(NewlinesBefore(s, pos))
ColumnAt(s, pos) ==
    IF NewlinesBefore(s, pos) = {} THEN pos + 1
    ELSE pos + 1 - (CHOOSE i \in NewlinesBefore(s, pos) :
                        \A j \in NewlinesBefore(s, pos) : j <= i)
TokensCarryStartPosition ==
    \A i \in 1..Len(ltokens) :
        /\ ltokens[i].line = LineAt(source, starts[i])
        /\ ltokens[i].column = ColumnAt(source, starts[i])

\* C15: the tree of an expression follows the precedence order assignment,
\* logical-or, logical-and, equality, comparison, additive, multiplicative,
\* unary, primary: read in order the tree gives back the tokens; the left
\* operand of a binary operator is of its level or a higher one and the right
\* operand of a higher one (a chain of one level leans left); the target of an
\* assignment is of a higher level than assignment and its value is any
\* expression (assignment is right-associative); the operand of a unary
\* operator is unary or primary.
PrecedenceOf(node) ==
    CASE node.type = "AssignmentExpression" -> 0
      [] node.type = "BinaryExpression" ->
            (CASE node.operator = "||" -> 1
               [] node.operator = "&&" -> 2
               [] node.operator \in {"==", "!="} -> 3
               [] node.operator \in {"<", "<=", ">", ">="} -> 4
               [] node.operator \in {"+", "-"} -> 5
               [] node.operator \in {"*", "/", "%"} -> 6)
      [] node.type = "UnaryExpression" -> 7
      [] OTHER -> 8

RECURSIVE FollowsPrecedence(_)
FollowsPrecedence(node) ==
    CASE node.type = "AssignmentExpression" ->
            /\ PrecedenceOf(node.left) > 0
            /\ FollowsPrecedence(node.left)
            /\ FollowsPrecedence(node.right)
      [] node.type = "BinaryExpression" ->
            /\ PrecedenceOf(node.left) >= PrecedenceOf(node)
            /\ PrecedenceOf(node.right) > PrecedenceOf(node)
            /\ FollowsPrecedence(node.left)
            /\ FollowsPrecedence(node.right)
      [] node.type = "UnaryExpression" ->
            /\ PrecedenceOf(node.operand) >= 7
            /\ FollowsPrecedence(node.operand)
      [] OTHER -> TRUE

\* the values of the tokens of an expression, read off its tree in order
RECURSIVE Leaves(_)
Leaves(node) ==
    CASE node.type = "AssignmentExpression" ->
            Leaves(node.left) \o <<"=">> \o Leaves(node.right)
      [] node.type = "BinaryExpression" ->
            Leaves(node.left) \o <<node.operator>> \o Leaves(node.right)
      [] node.type = "UnaryExpression" -> <<node.operator>> \o Leaves(node.operand)
      [] node.type = "Identifier" -> <<node.name>>
      [] OTHER -> <<"?">>

ParsedExpression == pstatus = "done" /\ tokens \in ExpressionInputs
ExpressionFollowsPrecedence ==
    ParsedExpression =>
        /\ Len(statements) = 1
        /\ statements[1].type = "ExpressionStatement"
        /\ Leaves(statements[1].expression) =
              [i \in 1..(Len(tokens) - 1) |-> tokens[i].value]
        /\ FollowsPrecedence(statements[1].expression)

\* C15 witness: - a * b - c has been parsed as ((-a) * b) - c
UnaryBindsTighterParsed ==
    /\ pstatus = "done"
    /\ tokens = << Token("MINUS", "-"), Token("IDENTIFIER", "a"), Token("MULTIPLY", "*"),
                   Token("IDENTIFIER", "b"), Token("MINUS", "-"), Token("IDENTIFIER", "c"),
                   EOF >>
    /\ statements =
          << ExpressionStatement(
                BinaryExpression(
                    BinaryExpression(UnaryExpression("-", Identifier("a")), "*",
                                     Identifier("b")),
                    "-", Identifier("c"))) >>

\* C16: a statement that begins with the keyword if, while or return parses to
\* an IfStatement, a WhileStatement or a ReturnStatement node, and that node is
\* appended to the enclosing Program's statements.
StatementKeywordAhead ==
    /\ pstatus = "body"
    /\ peek(tokens, current).type = "KEYWORD"
    /\ peek(tokens, current).value \in {"if", "while", "return"}
KeywordStatementParsed ==
    [][StatementKeywordAhead =>
          /\ Len(statements') = Len(statements) + 1
          /\ statements'[Len(statements')].type =
                (CASE peek(tokens, current).value = "if" -> "IfStatement"
                   [] peek(tokens, current).value = "while" -> "WhileStatement"
                   [] peek(tokens, current).value = "return" -> "ReturnStatement")]_vars

\* C17 (as amended): the parser does not test the shape of an assignment's
\* left-hand side: whatever expression precedes the first `=` of an expression
\* statement (a literal, a binary or unary expression, a parenthesized
\* expression) becomes the left side of the AssignmentExpression node, what
\* follows becomes its right side, and the node is part of the returned Program.
FirstAssign(toks) == CHOOSE i \in 1..Len(toks) :
                        /\ toks[i].type = "ASSIGN"
                        /\ \A j \in 1..(i - 1) : toks[j].type # "ASSIGN"
HasAssign(toks) == \E i \in 1..Len(toks) : toks[i].type = "ASSIGN"
ValuesOf(toks, from, to) == [i \in 1..(to - from + 1) |-> toks[from + i - 1].value]
AssignmentAhead ==
    /\ pstatus = "body"
    /\ current = 0
    /\ tokens \in ExpressionInputs
    /\ HasAssign(tokens)
TargetAhead ==
    /\ pstatus = "body"
    /\ current = 0
    /\ \E toks \in AssignmentTargetTokens : tokens = Append(toks, EOF)
AssignmentTargetUnchecked ==
    /\ [][AssignmentAhead =>
            /\ Len(statements') = 1
            /\ statements'[1].type = "ExpressionStatement"
            /\ statements'[1].expression.type = "AssignmentExpression"
            /\ Leaves(statements'[1].expression.left) =
                  ValuesOf(tokens, 1, FirstAssign(tokens) - 1)
            /\ Leaves(statements'[1].expression.right) =
                  ValuesOf(tokens, FirstAssign(tokens) + 1, Len(tokens) - 1)]_vars
    /\ [][TargetAhead =>
            /\ Len(statements') = 1
            /\ statements'[1].type = "ExpressionStatement"
            /\ statements'[1].expression.type = "AssignmentExpression"
            /\ statements'[1].expression.right = Identifier("b")
            /\ statements'[1].expression.left =
                  (CASE tokens[1].type = "NUMBER" -> Literal(HInt(1))
                     [] tokens[1].type = "STRING" -> Literal(HStr("s"))
                     [] tokens[2].type = "NUMBER" -> Literal(HInt(1))
                     [] OTHER -> Identifier("a"))]_vars

\* C17 witness: a - b = c has been parsed to an assignment whose left side is
\* the binary expression a - b
BinaryTargetParsed ==
    /\ pstatus = "done"
    /\ tokens = << Token("IDENTIFIER", "a"), Token("MINUS", "-"), Token("IDENTIFIER", "b"),
                   Token("ASSIGN", "="), Token("IDENTIFIER", "c"), EOF >>
    /\ statements =
          << ExpressionStatement(
                AssignmentExpression(
                    BinaryExpression(Identifier("a"), "-", Identifier("b")),
                    Identifier("c"))) >>

\* C17 (original claim): no AssignmentExpression node whose left side is not an
\* Identifier is part of a returned Program.
RECURSIVE TargetsAreIdentifiers(_)
TargetsAreIdentifiers(node) ==
    CASE node.type = "AssignmentExpression" ->
            /\ node.left.type = "Identifier"
            /\ TargetsAreIdentifiers(node.right)
      [] node.type = "BinaryExpression" ->
            TargetsAreIdentifiers(node.left) /\ TargetsAreIdentifiers(node.right)
      [] node.type = "UnaryExpression" -> TargetsAreIdentifiers(node.operand)
      [] node.type = "ExpressionStatement" -> TargetsAreIdentifiers(node.expression)
      [] node.type = "VariableDeclaration" -> TargetsAreIdentifiers(node.initializer)
      [] node.type = "FunctionDeclaration" ->
            \A i \in 1..Len(node.body) : TargetsAreIdentifiers(node.body[i])
      [] OTHER -> TRUE
AssignmentTargetIsIdentifier ==
    pstatus = "done" => \A i \in 1..Len(statements) : TargetsAreIdentifiers(statements[i])

\* C19: a token at primary position that is no true/false/null keyword, number,
\* string, identifier or `(` makes the statement fail with a syntax error at
\* that token: the statement yields no node, a diagnostic is printed, and the
\* token is not consumed.
PrimaryErrorAhead ==
    /\ pstatus = "body"
    /\ current = 0
    /\ \E toks \in PrimaryPositionTokens : tokens = Append(toks, EOF)
OtherTokenAtPrimaryIsError ==
    [][PrimaryErrorAhead =>
          /\ statements' = statements
          /\ perrors' = 1
          /\ current' = 2]_vars

\* C18: `/` applied to two numbers raises ZeroDivisionError and yields no value
\* when the right operand equals zero (0, 0.0 or false), and otherwise yields
\* the number that multiplied by the right operand gives the left one; through
\* interpret, a division by zero is reported and none is returned, while
\* 10 / 2 returns 5.
DividesNumbers ==
    /\ OnValue("binright")
    /\ Top.node.operator = "/"
    /\ IsNum(Top.left.value)
    /\ IsNum(control.v.value)
RightOperandIsZero(program) == NumOf(program.body[1].expression.right.value)[1] = 0
DivisionByZeroRaises ==
    /\ [][DividesNumbers =>
            IF NumOf(control.v.value)[1] = 0
            THEN control' = Raise("ZeroDivisionError", HNone)
            ELSE /\ control'.k = "value"
                 /\ control'.v.type_name = "number"
                 /\ IsNum(control'.v.value)
                 /\ QMul(NumOf(control'.v.value), NumOf(control.v.value)) =
                       NumOf(Top.left.value)]_vars
    /\ []((Finished /\ ast \in DivisionPrograms) =>
            IF RightOperandIsZero(ast)
            THEN /\ result = HNone
                 /\ output = <<RuntimeError("ZeroDivisionError")>>
            ELSE /\ output = <<>>
                 /\ result # HNone
                 /\ IsNum(result.value))
    /\ []((Finished /\ ast = DivisionProgram(HInt(10), HInt(2))) =>
            NumOf(result.value) = <<5, 1>>)

\* C18 witness: 10 / 0 ended with the error reported and no result, after the
\* division raised
DivisionByZeroReported ==
    /\ Finished
    /\ ast = DivisionProgram(HInt(10), HInt(0))
    /\ result = HNone
    /\ output = <<RuntimeError("ZeroDivisionError")>>

\* C20: a call of a built-in that returns yields a null-typed value whose
\* payload is the built-in's raw host result, not another wrapped runtime
\* value: len("ab") yields the integer 2 and print("ab") yields none.
BuiltinProgram(name, arguments) == Program(<<Stmt(CallOf(name, arguments))>>)
BuiltinYieldsRawResult ==
    /\ (Finished /\ ast \in BuiltinPrograms /\ ~ErrorReported) =>
            /\ result.type_name = "null"
            /\ result.value.k # "nexus"
    /\ (Finished /\ ast = BuiltinProgram("len", <<Literal(HStr("ab"))>>)) =>
            result = NexusValue(HInt(2), "null")
    /\ (Finished /\ ast = BuiltinProgram("print", <<Literal(HStr("ab"))>>)) =>
            result = NexusValue(HNone, "null")

\* C21: a user-function call leaves the interpreter's current scope as it was
\* just before the call, however it finishes (end of the body, return, an
\* error, a break or continue signal leaving the body) and at any depth: the
\* frame of a call remembers the scope current at the call, the scope changes
\* only when a call is entered or left, leaving a call makes the remembered
\* scope current, and so the scope is the global one in top-level code and when
\* interpret returns.
CallDepth == Cardinality(CallFrames)
CallLeft == Running /\ stack # <<>> /\ Top.k = "callbody" /\ CallDepth' < CallDepth
CallRestoresScope ==
    /\ [][CallDepth' > CallDepth =>
            /\ CallDepth' = CallDepth + 1
            /\ Top'.k = "callbody"
            /\ Top'.previous_env = environment]_vars
    /\ [][CallLeft =>
            /\ CallDepth' = CallDepth - 1
            /\ environment' = Top.previous_env]_vars
    /\ [][CallDepth' = CallDepth => environment' = environment]_vars
    /\ [](CallDepth = 0 => environment = 1)
    /\ [](Finished => (environment = 1 /\ CallDepth = 0))

\* C21 witness: the break of b's body has left the call made in the condition
\* of the loop, and the scope is the global one again
BreakLeftCall ==
    /\ ast = BreakInConditionProgram
    /\ Running
    /\ control.k = "raise"
    /\ control.exc = "BreakException"
    /\ Top.k = "whilecond"
    /\ CallDepth = 0
    /\ Len(envs) = 2
    /\ environment = 1

\* C22: a function call is a barrier for loop signals: when a break or continue
\* leaves the body of a function, no while loop of the calling code is in a
\* position to consume it, so the signal ends no loop of the caller and skips
\* none of its iterations; the loop `while (n < 3) f();` whose f increments n
\* and breaks still runs until n is 3.
LoopSignals == {"BreakException", "ContinueException"}
FrameConsumes(frame, exc) ==
    \/ frame.k = "whilebody" /\ WhileBodyHandler(exc) # "propagate"
    \/ frame.k = "whilecond" /\ exc = "BreakException"
LoopSignalLeavesCall == OnRaise("callbody") /\ control.exc \in LoopSignals
CallIsLoopSignalBarrier ==
    /\ LoopSignalLeavesCall =>
            \A i \in 2..Len(stack) : ~FrameConsumes(stack[i], control.exc)
    /\ (Finished /\ ast = BreakInCalleeProgram /\ ~ErrorReported) =>
            Global("n") = Number(3)

====
